---- MODULE Spec2Model ----
(***************************************************************************)
(* Model of the ecoord core: rigid transforms between coordinate frames,   *)
(* the sample interpolation / extrapolation engine, the frame graph and    *)
(* the TransformTree facade.                                               *)
(*                                                                         *)
(* Numbers: f64 values are modelled as exact rationals <<n, d>> in lowest  *)
(* terms (d > 0).  Timestamps are integer nanoseconds.                     *)
(* Rotations: unit quaternions about one fixed axis (the roll axis used by *)
(* the repository's tests), written as the rotation angle in quarter turns *)
(* modulo 8 (q and -q are the angles a and a+4; they denote the same       *)
(* rotation and compare equal, as nalgebra's PartialEq does).              *)
(* Vectors: x is the component along the axis; the (y, z) part is a finite *)
(* sum of terms R(k) * <<y, z>>, k a rational angle in [0, 1) quarter      *)
(* turns, so that rotating a vector by any rational angle is exact.        *)
(***************************************************************************)
EXTENDS Integers, Sequences, FiniteSets, TLC

\* ------------------------------------------------------------------ bounds
MaxTick == 3
MaxLen == 3
MaxOps == 1
\* longest item list handed to Octree::new
MaxItems == 3
\* passes of the subdivision loop that are followed
MaxRounds == 4

\* one tick of the time grid in nanoseconds (TLC integers are 32 bit, so
\* timestamps are nanoseconds relative to a nearby origin)
Tick == 1000

\* ------------------------------------------------------------ rationals
Abs(n) == IF n < 0 THEN -n ELSE n

RECURSIVE GCD(_, _)
GCD(a, b) == IF b = 0 THEN a ELSE GCD(b, a % b)

\* Operators bind their arguments through singleton sets (x \in {a}), so
\* that an argument is evaluated once however often the body uses it.
RNorm(n, d) ==
    CHOOSE r \in {<<((IF y < 0 THEN -1 ELSE 1) * x) \div GCD(Abs(x), Abs(y)),
                    ((IF y < 0 THEN -1 ELSE 1) * y) \div GCD(Abs(x), Abs(y))>>
                  : x \in {n}, y \in {d}} : TRUE

Rat(n) == <<n, 1>>
R0 == Rat(0)
R1 == Rat(1)
RAdd(a, b) ==
    CHOOSE r \in {RNorm(x[1] * y[2] + y[1] * x[2], x[2] * y[2])
                  : x \in {a}, y \in {b}} : TRUE
RNeg(a) == CHOOSE r \in {<<-x[1], x[2]>> : x \in {a}} : TRUE
RSub(a, b) == RAdd(a, RNeg(b))
RMul(a, b) ==
    CHOOSE r \in {RNorm(x[1] * y[1], x[2] * y[2]) : x \in {a}, y \in {b}} : TRUE
RDiv(a, b) ==
    CHOOSE r \in {RNorm(x[1] * y[2], x[2] * y[1]) : x \in {a}, y \in {b}} : TRUE
RLess(a, b) == \E x \in {a}, y \in {b} : x[1] * y[2] < y[1] * x[2]
RLeq(a, b) == \E x \in {a}, y \in {b} : x[1] * y[2] <= y[1] * x[2]
RFloor(a) == CHOOSE r \in {x[1] \div x[2] : x \in {a}} : TRUE
RMod(a, m) ==
    CHOOSE r \in {RSub(x, Rat(m * RFloor(RDiv(x, Rat(m))))) : x \in {a}} : TRUE

\* -------------------------------------------------------------- vectors
EmptyFn == [k \in {} |-> R0]
Pair0 == <<R0, R0>>
PGet(f, k) == IF k \in DOMAIN f THEN f[k] ELSE Pair0
PAdd(p, q) == <<RAdd(p[1], q[1]), RAdd(p[2], q[2])>>
PClean(f) == [k \in {j \in DOMAIN f : f[j] # Pair0} |-> f[k]]

\* a quarter turn about the axis maps (y, z) to (-z, y)
PQuarter(n, p) ==
    CASE n % 4 = 0 -> p
      [] n % 4 = 1 -> <<RNeg(p[2]), p[1]>>
      [] n % 4 = 2 -> <<RNeg(p[1]), RNeg(p[2])>>
      [] OTHER     -> <<p[2], RNeg(p[1])>>

Vector3(x, y, z) ==
    [x |-> Rat(x),
     yz |-> PClean([k \in {R0} |-> <<Rat(y), Rat(z)>>])]
VZero == Vector3(0, 0, 0)
VAdd(u, v) ==
    [x |-> RAdd(u.x, v.x),
     yz |-> PClean([k \in (DOMAIN u.yz) \cup (DOMAIN v.yz) |->
                        PAdd(PGet(u.yz, k), PGet(v.yz, k))])]
VScale(r, v) ==
    [x |-> RMul(r, v.x),
     yz |-> PClean([k \in DOMAIN v.yz |->
                        <<RMul(r, v.yz[k][1]), RMul(r, v.yz[k][2])>>])]
VSub(u, v) == VAdd(u, VScale(Rat(-1), v))

\* rotation of a vector by the angle a (quarter turns)
VRot(a, v) ==
    CHOOSE r \in
        {[x |-> v.x,
          yz |-> [kk \in {turned[k][1] : k \in DOMAIN v.yz} |->
                     CHOOSE p \in {turned[k][2] : k \in DOMAIN v.yz} :
                         \E k \in DOMAIN v.yz : turned[k] = <<kk, p>>]]
         : turned \in
             {[k \in DOMAIN v.yz |->
                  CHOOSE e \in {<<RSub(s, Rat(RFloor(s))),
                                  PQuarter(RFloor(s), v.yz[k])>>
                                : s \in {RAdd(k, a)}} : TRUE]}} : TRUE

\* ------------------------------------------------------------ rotations
RotNorm(a) == RMod(a, 8)
\* UnitQuaternion equality: q and -q are the same rotation
RotEq(a, b) == RMod(RSub(a, b), 4) = R0
\* UnitQuaternion::from_euler_angles(roll, 0, 0), roll = n/d quarter turns
FromRoll(n, d) == RotNorm(RNorm(n, d))

\* UnitQuaternion::slerp: flips the sign of `other` when the dot product is
\* negative, returns self when both quaternions coincide
Slerp(q1, q2, alpha) ==
    CHOOSE r \in
        {IF d = R0 THEN q1 ELSE RotNorm(RAdd(q1, RMul(alpha, d)))
         : d \in {IF RLeq(d1, Rat(2)) THEN d1 ELSE RSub(d1, Rat(8))
                  : d1 \in {IF RLess(Rat(2), d0) /\ RLess(d0, Rat(6))
                            THEN RMod(RAdd(d0, Rat(4)), 8) ELSE d0
                            : d0 \in {RMod(RSub(q2, q1), 8)}}}} : TRUE

\* ----------------------------------------------------------- transforms
Transform(translation, rotation) ==
    [translation |-> translation, rotation |-> rotation]
Identity == Transform(VZero, R0)
\* Isometry3 product: (t, q) * (t', q') = (t + q t', q q')
IsoMul(a, b) ==
    Transform(VAdd(a.translation, VRot(a.rotation, b.translation)),
              RotNorm(RAdd(a.rotation, b.rotation)))
TransformEq(a, b) ==
    a.translation = b.translation /\ RotEq(a.rotation, b.rotation)
TimedTransform(timestamp, transform) ==
    [timestamp |-> timestamp, transform |-> transform]

\* ------------------------------------------------------- call results
Ok(v) == [kind |-> "ok", val |-> v]
Err(e) == [kind |-> "err", err |-> e]
Panic == [kind |-> "panic"]
None == [kind |-> "none"]
Some(v) == [kind |-> "some", val |-> v]
IsOk(r) == r.kind = "ok"

\* ------------------------------------------------- sample list lookups
First(s) == s[1]
Last(s) == s[Len(s)]

\* slice::partition_point(|t| t.timestamp <= timestamp): binary search
RECURSIVE PartitionSearch(_, _, _, _)
PartitionSearch(transforms, timestamp, left, right) ==
    IF left >= right THEN left
    ELSE LET mid == left + ((right - left) \div 2)
         IN  IF transforms[mid + 1].timestamp <= timestamp
             THEN PartitionSearch(transforms, timestamp, mid + 1, right)
             ELSE PartitionSearch(transforms, timestamp, left, mid)
partition_point(transforms, timestamp) ==
    PartitionSearch(transforms, timestamp, 0, Len(transforms))

get_previous_transform(transforms, timestamp) ==
    LET idx == partition_point(transforms, timestamp)
    IN  IF idx = 0 THEN None ELSE Some(transforms[idx])

get_next_transform(transforms, timestamp) ==
    LET idx == partition_point(transforms, timestamp)
    IN  IF idx >= Len(transforms) THEN None ELSE Some(transforms[idx + 1])

is_static(transforms) ==
    \A i \in 1..Len(transforms) :
        /\ transforms[i].transform.translation
               = First(transforms).transform.translation
        /\ RotEq(transforms[i].transform.rotation,
                 First(transforms).transform.rotation)

\* ------------------------------------- interpolation and extrapolation
extrapolate_constant(transforms, timestamp) ==
    IF timestamp <= First(transforms).timestamp
    THEN Ok(First(transforms).transform)
    ELSE IF Last(transforms).timestamp <= timestamp
         THEN Ok(Last(transforms).transform)
         ELSE Panic

\* as ExtrapolateBetween, with the weight clamped to [0, 1]
ExtrapolateBetweenClamped(t1, t2, timestamp) ==
    CHOOSE r \in
        {Transform(VAdd(t1.transform.translation,
                        VScale(alpha, VSub(t2.transform.translation,
                                           t1.transform.translation))),
                   Slerp(t1.transform.rotation, t2.transform.rotation, alpha))
         : alpha \in
             {IF RLess(raw, R0) THEN R0 ELSE IF RLess(R1, raw) THEN R1 ELSE raw
              : raw \in {RDiv(Rat(timestamp - t1.timestamp),
                              Rat(t2.timestamp - t1.timestamp))}}} : TRUE

\* alpha = (timestamp - t1) / (t2 - t1); t1 + alpha * (t2 - t1); slerp
ExtrapolateBetween(t1, t2, timestamp) ==
    CHOOSE r \in
        {Transform(VAdd(t1.transform.translation,
                        VScale(alpha, VSub(t2.transform.translation,
                                           t1.transform.translation))),
                   Slerp(t1.transform.rotation, t2.transform.rotation, alpha))
         : alpha \in {RDiv(Rat(timestamp - t1.timestamp),
                           Rat(t2.timestamp - t1.timestamp))}} : TRUE

\* the pair (t1, t2) is chosen first; indexing a missing sample panics
extrapolate_linear(transforms, timestamp) ==
    IF /\ First(transforms).timestamp <= timestamp
       /\ timestamp <= Last(transforms).timestamp
    THEN Panic
    ELSE IF Len(transforms) < 2 THEN Panic
    ELSE IF timestamp < First(transforms).timestamp
    THEN Ok(ExtrapolateBetween(transforms[1], transforms[2], timestamp))
    ELSE Ok(ExtrapolateBetween(transforms[Len(transforms) - 1],
                               transforms[Len(transforms)], timestamp))

interpolate_step_function(transforms, timestamp) ==
    LET previous == get_previous_transform(transforms, timestamp)
        transform == IF previous = None THEN First(transforms)
                     ELSE previous.val
    IN  Ok(Transform(transform.transform.translation,
                     transform.transform.rotation))

\* weight = (timestamp - previous) / (next - previous);
\* previous * (1 - weight) + next * weight; slerp
interpolate_linearly(transforms, timestamp) ==
    CHOOSE r \in
        {IF previous = None \/ next = None THEN Panic
         ELSE CHOOSE ok \in
                  {Ok(Transform(
                       VAdd(VScale(RSub(R1, weight),
                                   previous.val.transform.translation),
                            VScale(weight, next.val.transform.translation)),
                       Slerp(previous.val.transform.rotation,
                             next.val.transform.rotation, weight)))
                   : weight \in
                       {RDiv(Rat(timestamp - previous.val.timestamp),
                             Rat(next.val.timestamp
                                     - previous.val.timestamp))}} : TRUE
         : previous \in {get_previous_transform(transforms, timestamp)},
           next \in {get_next_transform(transforms, timestamp)}} : TRUE

\* Option<InterpolationMethod>::unwrap_or_default, default Step
InterpolationOrDefault(m) == IF m = "none" THEN "step" ELSE m
\* Option<ExtrapolationMethod>::unwrap_or_default, default Constant
ExtrapolationOrDefault(m) == IF m = "none" THEN "constant" ELSE m

\* inter_and_extrapolate_transforms of the multi-channel model
inter_and_extrapolate_transforms(transforms, timestamp, interpolation_method, extrapolation_method) ==
    IF Len(transforms) = 0 THEN Err("NoTransforms")
    ELSE IF is_static(transforms) THEN Ok(First(transforms).transform)
    ELSE IF timestamp = None THEN Err("MissingTimestamp")
    ELSE IF \/ timestamp.val < First(transforms).timestamp
            \/ Last(transforms).timestamp < timestamp.val
         THEN IF extrapolation_method = "constant"
              THEN extrapolate_constant(transforms, timestamp.val)
              ELSE extrapolate_linear(transforms, timestamp.val)
         ELSE IF interpolation_method = "step"
              THEN interpolate_step_function(transforms, timestamp.val)
              ELSE interpolate_linearly(transforms, timestamp.val)

\* ---------------------------------------------------- transform edges
StaticTransform(parent_frame_id, child_frame_id, transform) ==
    [type |-> "static", parent_frame_id |-> parent_frame_id,
     child_frame_id |-> child_frame_id, transform |-> transform]

\* Vec::sort_by_key(|s| s.timestamp): stable, here by insertion
RECURSIVE InsertSorted(_, _)
InsertSorted(sorted, s) ==
    IF sorted = << >> THEN <<s>>
    ELSE IF Last(sorted).timestamp <= s.timestamp THEN Append(sorted, s)
    ELSE Append(InsertSorted(SubSeq(sorted, 1, Len(sorted) - 1), s),
                Last(sorted))
\* as SortByTimestamp, leaving the samples in input order
SortByTimestampSkipped(samples) == samples

RECURSIVE SortByTimestamp(_)
SortByTimestamp(samples) ==
    IF samples = << >> THEN << >>
    ELSE InsertSorted(SortByTimestamp(SubSeq(samples, 1, Len(samples) - 1)),
                      Last(samples))

DynamicTransformNew(parent_frame_id, child_frame_id, interpolation, extrapolation, samples) ==
    IF samples = << >> THEN Err("NoTransforms")
    ELSE LET sorted == SortByTimestamp(samples)
             dups == {i \in 1..(Len(sorted) - 1) :
                          sorted[i].timestamp = sorted[i + 1].timestamp}
         IN  IF dups # {}
             THEN [kind |-> "err", err |-> "DuplicateTimestamp",
                   timestamp |->
                       sorted[(CHOOSE i \in dups :
                                  \A j \in dups : i <= j) + 1].timestamp]
             ELSE Ok([type |-> "dynamic",
                      parent_frame_id |-> parent_frame_id,
                      child_frame_id |-> child_frame_id,
                      interpolation |-> interpolation,
                      extrapolation |-> extrapolation,
                      samples |-> sorted])

first_sample_time(d) == First(d.samples).timestamp
last_sample_time(d) == Last(d.samples).timestamp
sample_timestamps(d) == [i \in 1..Len(d.samples) |-> d.samples[i].timestamp]

\* as filter_samples_by_time, with the end of the window inclusive
filter_samples_by_time_closed(d, start_time, end_time) ==
    CHOOSE r \in
        {IF filtered_samples = << >>
         THEN [self |-> d, result |-> Err("NoTransforms")]
         ELSE [self |-> [d EXCEPT !.samples = filtered_samples],
               result |-> Ok(<< >>)]
         : filtered_samples \in
             {LET Keep(t) == /\ start_time = None \/ start_time.val <= t.timestamp
                             /\ end_time = None \/ t.timestamp <= end_time.val
              IN  SelectSeq(d.samples, Keep)}} : TRUE

\* DynamicTransform::filter_samples_by_time: the edge afterwards and the
\* value returned
filter_samples_by_time(d, start_time, end_time) ==
    CHOOSE r \in
        {IF filtered_samples = << >>
         THEN [self |-> d, result |-> Err("NoTransforms")]
         ELSE [self |-> [d EXCEPT !.samples = filtered_samples],
               result |-> Ok(<< >>)]
         : filtered_samples \in
             {LET Keep(t) == /\ start_time = None \/ start_time.val <= t.timestamp
                             /\ end_time = None \/ t.timestamp < end_time.val
              IN  SelectSeq(d.samples, Keep)}} : TRUE

\* DynamicTransform::interpolate
interpolate(d, timestamp) ==
    IF timestamp < first_sample_time(d) \/ last_sample_time(d) <= timestamp
    THEN IF ExtrapolationOrDefault(d.extrapolation) = "constant"
         THEN extrapolate_constant(d.samples, timestamp)
         ELSE extrapolate_linear(d.samples, timestamp)
    ELSE IF InterpolationOrDefault(d.interpolation) = "step"
         THEN interpolate_step_function(d.samples, timestamp)
         ELSE interpolate_linearly(d.samples, timestamp)

\* TransformEdge::at_time
at_time(edge, timestamp) ==
    IF edge.type = "static" THEN Ok(edge.transform)
    ELSE interpolate(edge, timestamp)

transform_id(edge) == <<edge.parent_frame_id, edge.child_frame_id>>

\* ---------------------------------------------------------- frame graph
Range(f) == {f[i] : i \in DOMAIN f}
ErrArg(e, a) == [kind |-> "err", err |-> e, arg |-> a]

\* FrameGraph::new: one node per frame mentioned, one arc per TransformId
FrameGraphNew(transform_ids) ==
    [nodes |-> {t[1] : t \in transform_ids} \cup {t[2] : t \in transform_ids},
     arcs |-> transform_ids]

\* petgraph::algo::all_simple_paths(graph, from, to, 0, None): depth-first
\* search over the outgoing neighbours, the visited nodes form the prefix
RECURSIVE SimplePathSearch(_, _, _)
SimplePathSearch(graph, visited, to) ==
    LET max_length == Cardinality(graph.nodes) - 1
        children == {c \in graph.nodes : <<Last(visited), c>> \in graph.arcs}
    IN  IF Len(visited) < max_length
        THEN UNION { IF child = to THEN {Append(visited, to)}
                     ELSE IF child \in Range(visited) THEN {}
                     ELSE SimplePathSearch(graph, Append(visited, child), to)
                     : child \in children }
        ELSE IF to \in children THEN {Append(visited, to)} ELSE {}
all_simple_paths(graph, from, to) == SimplePathSearch(graph, <<from>>, to)

\* as get_frame_id_path, taking the first path found when there are several
get_frame_id_path_first(graph, id) ==
    IF id[1] \notin graph.nodes THEN ErrArg("InvalidFrameId", id[1])
    ELSE IF id[2] \notin graph.nodes THEN ErrArg("InvalidFrameId", id[2])
    ELSE LET paths == all_simple_paths(graph, id[1], id[2])
         IN  IF paths = {} THEN ErrArg("NoTransformPath", id)
             ELSE Ok(CHOOSE path \in paths : TRUE)

get_frame_id_path(graph, id) ==
    IF id[1] \notin graph.nodes THEN ErrArg("InvalidFrameId", id[1])
    ELSE IF id[2] \notin graph.nodes THEN ErrArg("InvalidFrameId", id[2])
    ELSE LET paths == all_simple_paths(graph, id[1], id[2])
         IN  IF paths = {} THEN ErrArg("NoTransformPath", id)
             ELSE IF Cardinality(paths) > 1
                  THEN ErrArg("MultipleTransformPaths", id)
                  ELSE Ok(CHOOSE path \in paths : TRUE)

get_transform_id_path(graph, id) ==
    CHOOSE r \in
        {IF ~IsOk(path) THEN path
         ELSE Ok([i \in 1..(Len(path.val) - 1) |->
                     <<path.val[i], path.val[i + 1]>>])
         : path \in {get_frame_id_path(graph, id)}} : TRUE

\* as graph_root_frames, counting the outgoing neighbours
graph_root_frames_outgoing(graph) ==
    {n \in graph.nodes : ~\E a \in graph.arcs : a[1] = n}

graph_root_frames(graph) ==
    {n \in graph.nodes : ~\E a \in graph.arcs : a[2] = n}

graph_child_frames(graph) ==
    {n \in graph.nodes : ~\E a \in graph.arcs : a[1] = n}

\* ------------------------------------------------------- transform tree
FrameInfo(id, description, crs_epsg) ==
    [id |-> id, description |-> description, crs_epsg |-> crs_epsg]
DefaultFrameInfo(id) == FrameInfo(id, None, None)

\* collect::<HashMap<_, _>>(): a later entry replaces an earlier one
LastEdgeOf(seq, k) ==
    seq[CHOOSE i \in DOMAIN seq :
            /\ transform_id(seq[i]) = k
            /\ \A j \in DOMAIN seq : transform_id(seq[j]) = k => j <= i]
EdgeMapOf(seq) ==
    [k \in {transform_id(seq[i]) : i \in DOMAIN seq} |-> LastEdgeOf(seq, k)]
LastFrameOf(seq, k) ==
    seq[CHOOSE i \in DOMAIN seq :
            /\ seq[i].id = k
            /\ \A j \in DOMAIN seq : seq[j].id = k => j <= i]
FrameMapOf(seq) ==
    [k \in {seq[i].id : i \in DOMAIN seq} |-> LastFrameOf(seq, k)]
\* the values of a map, in some iteration order
RECURSIVE ValuesOf(_)
ValuesOf(m) ==
    IF DOMAIN m = {} THEN << >>
    ELSE LET k == CHOOSE x \in DOMAIN m : TRUE
         IN  Append(ValuesOf([j \in (DOMAIN m) \ {k} |-> m[j]]), m[k])

Tree(e, f, g) == [edges |-> e, frames |-> f, frame_graph |-> g]

\* TransformTree::new
TransformTreeNew(edge_list, frame_list) ==
    LET edge_map == EdgeMapOf(edge_list)
        given == FrameMapOf(frame_list)
        endpoints == {k[1] : k \in DOMAIN edge_map}
                         \cup {k[2] : k \in DOMAIN edge_map}
        frame_map == [k \in (DOMAIN given) \cup endpoints |->
                         IF k \in DOMAIN given THEN given[k]
                         ELSE DefaultFrameInfo(k)]
    IN  Tree(edge_map, frame_map, FrameGraphNew(DOMAIN edge_map))

\* TransformTree::insert_edge: the frame graph is left as it is
TreeInsertEdge(tree, e) ==
    LET ends == {e.parent_frame_id, e.child_frame_id}
        frame_map == [k \in (DOMAIN tree.frames) \cup ends |->
                         IF k \in DOMAIN tree.frames THEN tree.frames[k]
                         ELSE DefaultFrameInfo(k)]
        edge_map == [k \in (DOMAIN tree.edges) \cup {transform_id(e)} |->
                         IF k = transform_id(e) THEN e ELSE tree.edges[k]]
    IN  Tree(edge_map, frame_map, tree.frame_graph)

\* TransformTree::remove_transform
TreeRemoveTransform(tree, id) ==
    Tree([k \in (DOMAIN tree.edges) \ {id} |-> tree.edges[k]],
         tree.frames, tree.frame_graph)

\* as FoldIsometry, multiplying each transform from the left
RECURSIVE FoldIsometryReversed(_, _)
FoldIsometryReversed(transforms, n) ==
    IF n = 0 THEN Identity
    ELSE IsoMul(transforms[n], FoldIsometryReversed(transforms, n - 1))

\* fold(Isometry3::identity(), |acc, t| acc * t.isometry()), left to right
RECURSIVE FoldIsometry(_, _)
FoldIsometry(transforms, n) ==
    IF n = 0 THEN Identity
    ELSE IsoMul(FoldIsometry(transforms, n - 1), transforms[n])

\* the edges of the path evaluated at the timestamp (`expect("must exist")`
\* panics on a missing edge)
EdgesAtTime(tree, path, timestamp) ==
    [i \in DOMAIN path |->
        IF path[i] \in DOMAIN tree.edges
        THEN at_time(tree.edges[path[i]], timestamp)
        ELSE Panic]

\* TransformTree::get_transform_at_time
get_transform_at_time(tree, id, timestamp) ==
    CHOOSE r \in
        {IF ~IsOk(path) THEN path
         ELSE CHOOSE folded \in
                  {IF \E i \in DOMAIN transforms : ~IsOk(transforms[i])
                   THEN Panic
                   ELSE Ok(FoldIsometry([i \in DOMAIN transforms |->
                                             transforms[i].val],
                                        Len(transforms)))
                   : transforms \in
                       {EdgesAtTime(tree, path.val, timestamp)}} : TRUE
         : path \in {get_transform_id_path(tree.frame_graph, id)}} : TRUE

\* position of the first edge of the path that is missing or dynamic
FirstNonStatic(tree, path) ==
    LET bad == {i \in DOMAIN path :
                   \/ path[i] \notin DOMAIN tree.edges
                   \/ tree.edges[path[i]].type = "dynamic"}
    IN  IF bad = {} THEN 0 ELSE CHOOSE i \in bad : \A j \in bad : i <= j

\* TransformTree::get_static_transform
get_static_transform(tree, id) ==
    CHOOSE r \in
        {IF ~IsOk(path) THEN path
         ELSE CHOOSE folded \in
                  {IF stop = 0
                   THEN Ok(FoldIsometry(
                            [i \in DOMAIN path.val |->
                                tree.edges[path.val[i]].transform],
                            Len(path.val)))
                   ELSE IF path.val[stop] \notin DOMAIN tree.edges THEN Panic
                   ELSE Err("ContainsDynamicTransform")
                   : stop \in {FirstNonStatic(tree, path.val)}} : TRUE
         : path \in {get_transform_id_path(tree.frame_graph, id)}} : TRUE

\* TransformTree::is_transform_path_static
is_transform_path_static(tree, id) ==
    CHOOSE r \in
        {IF ~IsOk(path) THEN path
         ELSE CHOOSE answer \in
                  {IF stop = 0 THEN Ok(TRUE)
                   ELSE IF path.val[stop] \notin DOMAIN tree.edges THEN Panic
                   ELSE Ok(FALSE)
                   : stop \in {FirstNonStatic(tree, path.val)}} : TRUE
         : path \in {get_transform_id_path(tree.frame_graph, id)}} : TRUE

RECURSIVE Concat(_, _)
Concat(lists, n) ==
    IF n = 0 THEN << >> ELSE Concat(lists, n - 1) \o lists[n]

\* the sample timestamps of the dynamic edges of the path, in path order
PathSampleTimestamps(tree, path) ==
    Concat([i \in DOMAIN path |->
               IF tree.edges[path[i]].type = "dynamic"
               THEN sample_timestamps(tree.edges[path[i]])
               ELSE << >>],
           Len(path))

\* TransformTree::compute_timed_transforms_for_all_samples
compute_timed_transforms_for_all_samples(tree, id) ==
    CHOOSE r \in
        {IF ~IsOk(path) THEN path
         ELSE IF \E i \in DOMAIN path.val : path.val[i] \notin DOMAIN tree.edges
         THEN Panic
         ELSE CHOOSE all \in
                  {IF \E i \in DOMAIN timed : ~IsOk(timed[i].transform)
                   THEN Panic
                   ELSE Ok([i \in DOMAIN timed |->
                               TimedTransform(timed[i].timestamp,
                                              timed[i].transform.val)])
                   : timed \in
                       {[i \in DOMAIN stamps |->
                            TimedTransform(
                                stamps[i],
                                get_transform_at_time(tree, id, stamps[i]))]
                        : stamps \in
                            {PathSampleTimestamps(tree, path.val)}}} : TRUE
         : path \in {get_transform_id_path(tree.frame_graph, id)}} : TRUE

\* TransformTree::static_snapshot_at
static_snapshot_at(tree, timestamp) ==
    CHOOSE r \in
        {IF \E i \in DOMAIN values : ~IsOk(transforms[i]) THEN Panic
         ELSE Ok(TransformTreeNew(
                     [i \in DOMAIN values |->
                         StaticTransform(values[i].parent_frame_id,
                                         values[i].child_frame_id,
                                         transforms[i].val)],
                     ValuesOf(tree.frames)))
         : <<values, transforms>> \in
             {<<v, [i \in DOMAIN v |-> at_time(v[i], timestamp)]>>
              : v \in {ValuesOf(tree.edges)}}} : TRUE

\* ================================================ multi-channel model
ChannelInfo(priority) == [priority |-> priority]

TransformInfo(interpolation_method, extrapolation_method) ==
    [interpolation_method |-> interpolation_method,
     extrapolation_method |-> extrapolation_method]

ReferenceFrames(transforms, frame_info, channel_info, transform_info) ==
    [transforms |-> transforms, frame_info |-> frame_info,
     channel_info |-> channel_info, transform_info |-> transform_info]

\* a HashMap or HashSet is iterated in an order the program does not
\* choose: Orders(S) holds every order in which the elements of S can come
Orders(S) == {o \in [1..Cardinality(S) -> S] : Range(o) = S}

\* the elements of S in the order in which `order` visits them
Restrict(order, S) ==
    LET Member(k) == k \in S
    IN  SelectSeq(order, Member)

\* slice::windows(2).all(|t| t[0].timestamp < t[1].timestamp)
WindowsAscending(transforms) ==
    \A i \in 1..(Len(transforms) - 1) :
        transforms[i].timestamp < transforms[i + 1].timestamp

\* any(|(_, transform_id)| frame_id == frame || child_frame_id == frame)
ContainedInTransforms(transforms, frame) ==
    \E k \in DOMAIN transforms : k[2][1] = frame \/ k[2][2] = frame

\* ReferenceFrames::new; `order` is the iteration order of `transforms`
ReferenceFramesNew(transforms, frame_info, channel_info, transform_info, order) ==
    IF /\ DOMAIN transforms # {}
       /\ \E frame \in DOMAIN frame_info :
              ~ContainedInTransforms(transforms, frame)
    THEN Panic
    ELSE IF \E k \in DOMAIN transforms : ~WindowsAscending(transforms[k])
    THEN ErrArg("TransformsNotSorted",
                First(Restrict(order, {k \in DOMAIN transforms :
                                          ~WindowsAscending(transforms[k])})))
    ELSE Ok(ReferenceFrames(
                [k \in DOMAIN transforms |-> SortByTimestamp(transforms[k])],
                frame_info, channel_info, transform_info))

get_channel_ids(self) == {k[1] : k \in DOMAIN self.transforms}

\* Option<i32>::unwrap_or_default: a channel without ChannelInfo, or with
\* priority None, has priority 0
get_channel_priority(self, channel_id) ==
    IF channel_id \notin get_channel_ids(self)
    THEN ErrArg("InvalidChannelId", channel_id)
    ELSE IF channel_id \in DOMAIN self.channel_info
         THEN IF self.channel_info[channel_id].priority = None
              THEN Ok(0)
              ELSE Ok(self.channel_info[channel_id].priority.val)
         ELSE Ok(0)

get_interpolation_method(self, id) ==
    IF id \in DOMAIN self.transform_info
    THEN self.transform_info[id].interpolation_method
    ELSE "step"

get_extrapolation_method(self, id) ==
    IF id \in DOMAIN self.transform_info
    THEN self.transform_info[id].extrapolation_method
    ELSE "constant"

\* ops::filter::filter_by_channel (channel_ids is not empty at its one call)
filter_by_channel(transforms, channel_ids) ==
    [k \in {x \in DOMAIN transforms : x[1] \in channel_ids} |-> transforms[k]]

\* Iterator::min_by_key: the first element of the lowest priority
min_by_key(self, group) ==
    group[CHOOSE i \in DOMAIN group :
            /\ \A j \in DOMAIN group :
                   get_channel_priority(self, group[i][1]).val
                       <= get_channel_priority(self, group[j][1]).val
            /\ \A j \in DOMAIN group :
                   j < i => get_channel_priority(self, group[i][1]).val
                                < get_channel_priority(self, group[j][1]).val]

\* Iterator::max_by_key: the last element of the highest priority
max_by_key(self, group) ==
    group[CHOOSE i \in DOMAIN group :
            /\ \A j \in DOMAIN group :
                   get_channel_priority(self, group[j][1]).val
                       <= get_channel_priority(self, group[i][1]).val
            /\ \A j \in DOMAIN group :
                   j > i => get_channel_priority(self, group[j][1]).val
                                < get_channel_priority(self, group[i][1]).val]

\* sorted_by_key(|k| &k.0.1).chunk_by(|k| k.0.1.clone()): the sort is
\* stable, a group holds its keys in the iteration order of the map
GroupOf(selected_transforms, order, id) ==
    Restrict(order, {k \in DOMAIN selected_transforms : k[2] = id})

\* prioritized_selected_transforms: per TransformId, the key that won
PrioritizedKeys(self, selected_transforms, order) ==
    [id \in {k[2] : k \in DOMAIN selected_transforms} |->
        max_by_key(self, GroupOf(selected_transforms, order, id))]

\* IsometryGraph::new: the arena hangs each transform under the transform
\* whose child frame is its parent frame
IsometryGraphNew(isometry_transforms) ==
    IF DOMAIN isometry_transforms = {} THEN Err("MissingTransforms")
    ELSE Ok([isometries |-> isometry_transforms,
             parent |-> [id \in DOMAIN isometry_transforms |->
                 IF \E p \in DOMAIN isometry_transforms : p[2] = id[1]
                 THEN Some(CHOOSE p \in DOMAIN isometry_transforms :
                               p[2] = id[1])
                 ELSE None]])

\* the second loop of derive_transform_graph: `?` returns the first
\* failure met in the iteration order `id_order`
SelectedIsometries(evaluated, id_order) ==
    IF \E id \in DOMAIN evaluated : ~IsOk(evaluated[id])
    THEN evaluated[First(Restrict(id_order, {id \in DOMAIN evaluated :
                                                ~IsOk(evaluated[id])}))]
    ELSE IsometryGraphNew([id \in DOMAIN evaluated |-> evaluated[id].val])

\* ReferenceFrames::derive_transform_graph; `order` is the iteration order
\* of the transforms map, `id_order` that of the prioritized map
derive_transform_graph(self, selected_channel_ids, selected_timestamp, order, id_order) ==
    IF selected_channel_ids # None /\ selected_channel_ids.val = {}
    THEN Err("NoChannels")
    ELSE CHOOSE r \in
        {SelectedIsometries(
            [id \in DOMAIN keys |->
                inter_and_extrapolate_transforms(
                    self.transforms[keys[id]], selected_timestamp,
                    get_interpolation_method(self, id),
                    get_extrapolation_method(self, id))],
            id_order)
         : keys \in {PrioritizedKeys(self, sel, order)
                     : sel \in {IF selected_channel_ids = None
                                THEN self.transforms
                                ELSE filter_by_channel(self.transforms,
                                         selected_channel_ids.val)}}} : TRUE

\* the keys that more than one of the inputs holds
Collisions(reference_frames) ==
    {k \in UNION {DOMAIN reference_frames[i].transforms
                  : i \in DOMAIN reference_frames} :
        Cardinality({i \in DOMAIN reference_frames :
                        k \in DOMAIN reference_frames[i].transforms}) > 1}

\* entry(key).or_default().append(..): the vectors of the inputs that hold
\* the key, one after the other
RECURSIVE AppendedTransforms(_, _)
AppendedTransforms(reference_frames, k) ==
    IF reference_frames = << >> THEN << >>
    ELSE (IF k \in DOMAIN First(reference_frames).transforms
          THEN First(reference_frames).transforms[k]
          ELSE << >>) \o AppendedTransforms(Tail(reference_frames), k)

\* HashMap::insert over the inputs in turn: the last input that holds the
\* key gives its value
InsertedInfos(reference_frames, field) ==
    [k \in UNION {DOMAIN reference_frames[i][field]
                  : i \in DOMAIN reference_frames} |->
        reference_frames[CHOOSE i \in DOMAIN reference_frames :
            /\ k \in DOMAIN reference_frames[i][field]
            /\ \A j \in DOMAIN reference_frames :
                   k \in DOMAIN reference_frames[j][field] => j <= i
        ][field][k]]

\* ops::merge::merge; `order` is the iteration order of the key set
merge(reference_frames, order) ==
    IF Collisions(reference_frames) # {}
    THEN ErrArg("ChannelTransformCollisions",
                First(Restrict(order, Collisions(reference_frames))))
    ELSE ReferenceFramesNew(
             [k \in UNION {DOMAIN reference_frames[i].transforms
                           : i \in DOMAIN reference_frames} |->
                 SortByTimestamp(AppendedTransforms(reference_frames, k))],
             InsertedInfos(reference_frames, "frame_info"),
             InsertedInfos(reference_frames, "channel_info"),
             InsertedInfos(reference_frames, "transform_info"),
             order)

\* ReferenceFrames::add_transforms: the outcome and the ReferenceFrames after
add_transforms(self, channel_id, id, transforms, channel_info, transform_info) ==
    IF transforms = << >>
    THEN [result |-> Err("NoTransforms"), self |-> self]
    ELSE [result |-> Ok("unit"),
          self |-> ReferenceFrames(
              [k \in (DOMAIN self.transforms) \cup {<<channel_id, id>>} |->
                  IF k = <<channel_id, id>> THEN transforms
                  ELSE self.transforms[k]],
              self.frame_info,
              IF channel_info = None THEN self.channel_info
              ELSE [c \in (DOMAIN self.channel_info) \cup {channel_id} |->
                       IF c = channel_id THEN channel_info.val
                       ELSE self.channel_info[c]],
              IF transform_info = None THEN self.transform_info
              ELSE [t \in (DOMAIN self.transform_info) \cup {id} |->
                       IF t = id THEN transform_info.val
                       ELSE self.transform_info[t]])]

\* ReferenceFrames::extend_transforms: the outcome and the ReferenceFrames
\* after
extend_transforms(self, channel_id, id, transforms) ==
    IF transforms = << >>
    THEN [result |-> Err("NoTransforms"), self |-> self]
    ELSE [result |-> Ok("unit"),
          self |-> ReferenceFrames(
              [k \in (DOMAIN self.transforms) \cup {<<channel_id, id>>} |->
                  IF k = <<channel_id, id>>
                  THEN SortByTimestamp(
                           (IF k \in DOMAIN self.transforms
                            THEN self.transforms[k] ELSE << >>) \o transforms)
                  ELSE self.transforms[k]],
              self.frame_info, self.channel_info, self.transform_info)]

\* ============================================================= octree
Point3(x, y, z) == [x |-> x, y |-> y, z |-> z]
\* an item with its HasAabb answers
Item(center, min, max) == [center |-> center, min |-> min, max |-> max]
\* impl HasAabb for Point3<f64>: center, min and max are the point
PointItem(p) == Item(p, p, p)

RMin(a, b) == IF RLeq(a, b) THEN a ELSE b

RMax(a, b) == IF RLeq(b, a) THEN a ELSE b

\* Iterator::reduce over one coordinate of the items
RECURSIVE ReduceMin(_, _, _)
ReduceMin(items, bound, axis) ==
    IF Len(items) = 1 THEN items[1][bound][axis]
    ELSE RMin(ReduceMin(SubSeq(items, 1, Len(items) - 1), bound, axis),
              items[Len(items)][bound][axis])

RECURSIVE ReduceMax(_, _, _)
ReduceMax(items, bound, axis) ==
    IF Len(items) = 1 THEN items[1][bound][axis]
    ELSE RMax(ReduceMax(SubSeq(items, 1, Len(items) - 1), bound, axis),
              items[Len(items)][bound][axis])

\* AxisAlignedBoundingBox::new
AxisAlignedBoundingBoxNew(lower_bound, upper_bound) ==
    IF \/ RLess(upper_bound.x, lower_bound.x)
       \/ RLess(upper_bound.y, lower_bound.y)
       \/ RLess(upper_bound.z, lower_bound.z)
    THEN Err("LowerBoundExceedsUpperBound")
    ELSE Ok([lower_bound |-> lower_bound, upper_bound |-> upper_bound])

\* AxisAlignedBoundingCube::new_unchecked
CubeNewUnchecked(lower_bound, edge_length) ==
    [lower_bound |-> lower_bound, edge_length |-> edge_length,
     upper_bound |-> Point3(RAdd(lower_bound.x, edge_length),
                            RAdd(lower_bound.y, edge_length),
                            RAdd(lower_bound.z, edge_length))]

\* 2^(floor(log2 x) + 1) for x > 0: the power of two p with p/2 <= x < p
RECURSIVE PowerOfTwoAbove(_, _)
PowerOfTwoAbove(x, p) ==
    IF RLeq(p, x) THEN PowerOfTwoAbove(x, RMul(p, Rat(2)))
    ELSE IF RLess(x, RDiv(p, Rat(2))) THEN PowerOfTwoAbove(x, RDiv(p, Rat(2)))
    ELSE p

next_strict_power_of_two_f64(x) ==
    IF RLeq(x, R0) THEN R1 ELSE PowerOfTwoAbove(x, R1)

\* AxisAlignedBoundingCube::from_power_of_two_enclosing_box
from_power_of_two_enclosing_box(bounding_box) ==
    CHOOSE r \in
        {CubeNewUnchecked(
            Point3(RSub(RAdd(lo.x, RDiv(RSub(up.x, lo.x), Rat(2))), RDiv(e, Rat(2))),
                   RSub(RAdd(lo.y, RDiv(RSub(up.y, lo.y), Rat(2))), RDiv(e, Rat(2))),
                   RSub(RAdd(lo.z, RDiv(RSub(up.z, lo.z), Rat(2))), RDiv(e, Rat(2)))),
            e)
         : e \in {next_strict_power_of_two_f64(
                     RMax(RMax(RSub(up.x, lo.x), RSub(up.y, lo.y)),
                          RSub(up.z, lo.z)))
                  : lo \in {bounding_box.lower_bound},
                    up \in {bounding_box.upper_bound}},
           lo \in {bounding_box.lower_bound},
           up \in {bounding_box.upper_bound}} : TRUE

\* OctreeBounds::new
OctreeBoundsNew(bounding_box) ==
    [bounding_box |-> bounding_box,
     enclosing_cube |-> from_power_of_two_enclosing_box(bounding_box)]

\* derive_octree_bounds
derive_octree_bounds(items) ==
    IF Len(items) = 0 THEN Err("NoMinValue")
    ELSE CHOOSE r \in
        {IF IsOk(b) THEN Ok(OctreeBoundsNew(b.val)) ELSE b
         : b \in {AxisAlignedBoundingBoxNew(
                     Point3(ReduceMin(items, "min", "x"),
                            ReduceMin(items, "min", "y"),
                            ReduceMin(items, "min", "z")),
                     Point3(ReduceMax(items, "max", "x"),
                            ReduceMax(items, "max", "y"),
                            ReduceMax(items, "max", "z")))}} : TRUE

OctantIndex(level, x, y, z) == [level |-> level, x |-> x, y |-> y, z |-> z]
\* OctantIndex::origin
Origin == OctantIndex(0, 0, 0, 0)

\* OctantIndex::get_children
get_children(self) ==
    {OctantIndex(self.level + 1, 2 * self.x + dx, 2 * self.y + dy, 2 * self.z + dz)
     : dx \in {0, 1}, dy \in {0, 1}, dz \in {0, 1}}

\* OctantIndex::get_parent
get_parent(self) ==
    IF self.level > 0
    THEN Some(OctantIndex(self.level - 1, self.x \div 2, self.y \div 2, self.z \div 2))
    ELSE None

\* OctreeBounds::get_octant_bounding_cube
get_octant_bounding_cube(self, index) ==
    CHOOSE r \in
        {CubeNewUnchecked(
            Point3(RAdd(self.enclosing_cube.lower_bound.x, RMul(e, Rat(index.x))),
                   RAdd(self.enclosing_cube.lower_bound.y, RMul(e, Rat(index.y))),
                   RAdd(self.enclosing_cube.lower_bound.z, RMul(e, Rat(index.z)))),
            e)
         : e \in {RDiv(self.enclosing_cube.edge_length, Rat(2^index.level))}}
        : TRUE

\* AxisAlignedBoundingCube::contains_point_closed: closed bounds [min, max]
contains_point_closed(self, point) ==
    /\ RLeq(self.lower_bound.x, point.x) /\ RLeq(point.x, self.upper_bound.x)
    /\ RLeq(self.lower_bound.y, point.y) /\ RLeq(point.y, self.upper_bound.y)
    /\ RLeq(self.lower_bound.z, point.z) /\ RLeq(point.z, self.upper_bound.z)

\* AxisAlignedBoundingCube::contains_point: half-open bounds [min, max)
contains_point(self, point) ==
    /\ RLeq(self.lower_bound.x, point.x) /\ RLess(point.x, self.upper_bound.x)
    /\ RLeq(self.lower_bound.y, point.y) /\ RLess(point.y, self.upper_bound.y)
    /\ RLeq(self.lower_bound.z, point.z) /\ RLess(point.z, self.upper_bound.z)

\* OctreeOccupancyGraph::new; edges maps an edge of the petgraph Graph to
\* the number of times it was added (add_edge does not look for an edge
\* that is already there)
OccupancyGraphNew == [nodes |-> {}, edges |-> << >>]

\* the loop of add_cell_occupancy walks from the octant up the chain of
\* its parents: octant o is on the walk that starts at octant_index
Walked(o, octant_index) ==
    /\ o.level <= octant_index.level
    /\ o.x = octant_index.x \div 2^(octant_index.level - o.level)
    /\ o.y = octant_index.y \div 2^(octant_index.level - o.level)
    /\ o.z = octant_index.z \div 2^(octant_index.level - o.level)

\* the edges one add_cell_occupancy call adds, parent to child
WalkedEdges(octant_index) ==
    {<<OctantIndex(l - 1, octant_index.x \div 2^(octant_index.level - l + 1),
                          octant_index.y \div 2^(octant_index.level - l + 1),
                          octant_index.z \div 2^(octant_index.level - l + 1)),
       OctantIndex(l, octant_index.x \div 2^(octant_index.level - l),
                      octant_index.y \div 2^(octant_index.level - l),
                      octant_index.z \div 2^(octant_index.level - l))>>
     : l \in 1..octant_index.level}

\* results.iter().for_each(|r| occupancy_graph.add_cell_occupancy(..)),
\* given the edges the calls add
AddWalkedEdges(self, indices, walked) ==
    [nodes |-> self.nodes \cup {e[1] : e \in walked} \cup {e[2] : e \in walked},
     edges |-> [e \in (DOMAIN self.edges) \cup walked |->
                   (IF e \in DOMAIN self.edges THEN self.edges[e] ELSE 0)
                   + Cardinality({i \in indices : Walked(e[2], i)})]]

\* OctreeOccupancyGraph::add_cell_occupancy
add_cell_occupancy(self, octant_index) ==
    AddWalkedEdges(self, {octant_index}, WalkedEdges(octant_index))

AddCellOccupancies(self, indices) ==
    AddWalkedEdges(self, indices, UNION {WalkedEdges(i) : i \in indices})

\* OctreeOccupancyGraph::is_cell_occupied
is_cell_occupied(self, index) == index \in self.nodes

\* generate_child_pairs
generate_child_pairs(parent) ==
    IF parent = None THEN {<<None, Origin>>}
    ELSE {<<parent, child>> : child \in get_children(parent.val)}

\* get_child_pairs
get_child_pairs(octant_indices) ==
    UNION {generate_child_pairs(parent) : parent \in octant_indices}

\* the filter of sub_divide: the pending items (indices into items) whose
\* center the cube contains
ItemsWithinCube(items, pending_items_for_octant, cube) ==
    LET Within(i) == contains_point(cube, items[i].center)
    IN  SelectSeq(pending_items_for_octant, Within)

\* what split_off leaves no cap on: every item of the cube is assigned
AssignedItemsUncapped(items_within_cube, max_items_per_octant) ==
    IF Len(items_within_cube) = 0 THEN None ELSE Some(items_within_cube)

\* items_within_cube after split_off(max_items_per_octant); None when empty
AssignedItems(items_within_cube, max_items_per_octant) ==
    CHOOSE r \in
        {IF Len(kept) = 0 THEN None ELSE Some(kept)
         : kept \in {IF Len(items_within_cube) > max_items_per_octant
                     THEN SubSeq(items_within_cube, 1, max_items_per_octant)
                     ELSE items_within_cube}} : TRUE

\* split_off one position late: the first item beyond the cap is in neither
\* part
RemainingItemsShort(items_within_cube, max_items_per_octant) ==
    IF Len(items_within_cube) > max_items_per_octant
    THEN Some(SubSeq(items_within_cube, max_items_per_octant + 2,
                     Len(items_within_cube)))
    ELSE None

\* Vec::split_off(max_items_per_octant) when the cube holds more items
RemainingItems(items_within_cube, max_items_per_octant) ==
    IF Len(items_within_cube) > max_items_per_octant
    THEN Some(SubSeq(items_within_cube, max_items_per_octant + 1,
                     Len(items_within_cube)))
    ELSE None

IntermediateResult(octant_index, items_within_cube, max_items_per_octant) ==
    [octant_index |-> octant_index,
     assigned_items |-> AssignedItems(items_within_cube, max_items_per_octant),
     remaining_items |-> RemainingItems(items_within_cube, max_items_per_octant)]

\* the closure sub_divide maps over the (parent, child) pairs
sub_divide_pair(items, pending_items, octree_bounds, max_items_per_octant, pair) ==
    IntermediateResult(pair[2],
        ItemsWithinCube(items, pending_items[pair[1]],
            get_octant_bounding_cube(octree_bounds, pair[2])),
        max_items_per_octant)

\* sub_divide: one IntermediateResult per child of a pending octant
sub_divide(items, pending_items, octree_bounds, max_items_per_octant) ==
    {sub_divide_pair(items, pending_items, octree_bounds,
                     max_items_per_octant, pair)
     : pair \in get_child_pairs(DOMAIN pending_items)}

\* final_items.extend(..) keyed by the level of the octant alone, so that
\* the results of one round fall on one key
final_items_extend_by_level(final_items, r) ==
    IF r.assigned_items = None THEN final_items
    ELSE [k \in (DOMAIN final_items) \cup {OctantIndex(r.octant_index.level, 0, 0, 0)} |->
             IF k = OctantIndex(r.octant_index.level, 0, 0, 0)
             THEN r.assigned_items.val ELSE final_items[k]]

\* final_items.extend(..) for one result: inserted under its octant_index
\* when it has assigned items
final_items_extend(final_items, r) ==
    IF r.assigned_items = None THEN final_items
    ELSE [k \in (DOMAIN final_items) \cup {r.octant_index} |->
             IF k = r.octant_index THEN r.assigned_items.val
             ELSE final_items[k]]

\* the collect() into the next pending_items for one result: inserted under
\* Some(octant_index) when it has remaining items
pending_items_collect(collected, r) ==
    IF r.remaining_items = None THEN collected
    ELSE [k \in (DOMAIN collected) \cup {Some(r.octant_index)} |->
             IF k = Some(r.octant_index) THEN r.remaining_items.val
             ELSE collected[k]]

ResultOf(results, octant_index) ==
    CHOOSE r \in results : r.octant_index = octant_index

\* one pass of the while loop of compute_octree, given what sub_divide
\* returned
RoundWith(b, results) ==
    [b EXCEPT
        !.occupancy_graph =
            AddCellOccupancies(@, {r.octant_index : r \in results}),
        !.final_items =
            [k \in (DOMAIN @) \cup {r.octant_index : r \in
                                      {x \in results : x.assigned_items # None}} |->
                IF \E r \in results : r.octant_index = k /\ r.assigned_items # None
                THEN ResultOf(results, k).assigned_items.val
                ELSE @[k]],
        !.pending_items =
            [p \in {Some(r.octant_index) : r \in
                      {x \in results : x.remaining_items # None}} |->
                ResultOf(results, p.val).remaining_items.val],
        !.rounds = @ + 1]

Round(b) ==
    RoundWith(b, sub_divide(b.items, b.pending_items, b.bounds,
                            b.max_items_per_octant))

\* shuffle_items_if_needed: a seed gives some permutation of the items
shuffle_items_if_needed(items, shuffle) ==
    IF shuffle = None THEN items
    ELSE [i \in 1..Len(items) |-> items[shuffle.val[i]]]

\* initialize_pending_items
initialize_pending_items(items) ==
    [p \in {None} |-> [i \in 1..Len(items) |-> i]]

\* compute_octree up to its while loop
StartOctree(items, max_items_per_octant, shuffle) ==
    IF ~IsOk(derive_octree_bounds(items))
    THEN derive_octree_bounds(items)
    ELSE [kind |-> "building",
          items |-> shuffle_items_if_needed(items, shuffle),
          max_items_per_octant |-> max_items_per_octant,
          bounds |-> derive_octree_bounds(items).val,
          occupancy_graph |-> OccupancyGraphNew,
          pending_items |-> initialize_pending_items(items),
          final_items |-> << >>,
          rounds |-> 0]

\* the end of compute_octree and of Octree::new: the cells hold the items
FinishOctree(b) ==
    Ok([bounds |-> b.bounds,
        occupancy_graph |-> b.occupancy_graph,
        cells |-> [k \in DOMAIN b.final_items |->
                      [j \in 1..Len(b.final_items[k]) |->
                          b.items[b.final_items[k][j]]]]])

\* ======================================================== Morton codes
\* the unsigned integers of this section are held as the sets of the
\* positions of their one bits, position 0 the least significant
U32Bits == 0..31
U64Bits == 0..63
\* n << k on u64
Shl(n, k) == {b + k : b \in n} \cap U64Bits
\* the run of one bits from position lo to position hi
Ones(lo, hi) == lo..hi

\* split_by_3
split_by_3(n) ==
    LET x0 == n \cap Ones(0, 20)
        x1 == (x0 \cup Shl(x0, 32)) \cap (Ones(0, 15) \cup Ones(48, 52))
        x2 == (x1 \cup Shl(x1, 16))
                  \cap (Ones(0, 7) \cup Ones(24, 31) \cup Ones(48, 52))
        x3 == (x2 \cup Shl(x2, 8))
                  \cap (Ones(0, 3) \cup Ones(12, 15) \cup Ones(24, 27)
                            \cup Ones(36, 39) \cup Ones(48, 51) \cup {60})
        x4 == (x3 \cup Shl(x3, 4))
                  \cap (UNION {Ones(6 * k, 6 * k + 1) : k \in 0..9} \cup {60})
    IN  (x4 \cup Shl(x4, 2)) \cap {3 * k : k \in 0..20}

\* morton_encode
morton_encode(x, y, z) ==
    split_by_3(x) \cup Shl(split_by_3(y), 1) \cup Shl(split_by_3(z), 2)

\* OctantIndex::morton_index; `self.x as u32` keeps the low 32 bits
morton_index(self) ==
    IF \/ self.x \ U32Bits # {}
       \/ self.y \ U32Bits # {}
       \/ self.z \ U32Bits # {}
    THEN Err("IndexTooLarge")
    ELSE Ok(morton_encode(self.x \cap U32Bits, self.y \cap U32Bits,
                          self.z \cap U32Bits))

\* a < b on the unsigned integers
BitsLess(a, b) ==
    \E i \in b \ a : \A j \in (a \cup b) : j > i => (j \in a <=> j \in b)

\* the sort key (k.0.level, k.1) of p is greater than that of q
KeyGreater(p, q) ==
    \/ p[1].level > q[1].level
    \/ p[1].level = q[1].level /\ BitsLess(q[2], p[2])

\* Vec<OctantIndex>::sort_by_morton_indices for a list of two: a stable sort
sort_by_morton_indices(self) ==
    LET codes == [i \in DOMAIN self |-> morton_index(self[i])]
        failed == {i \in DOMAIN self : ~IsOk(codes[i])}
        indices == [i \in DOMAIN self |-> <<self[i], codes[i].val>>]
    IN  IF failed # {}
        THEN codes[CHOOSE i \in failed : \A j \in failed : i <= j]
        ELSE IF Len(self) = 2 /\ KeyGreater(indices[1], indices[2])
        THEN Ok(<<indices[2], indices[1]>>)
        ELSE Ok(indices)

\* ==================================================== readers (ecoord-io)
NanosPerSec == 1000000000

\* integer division and remainder of Rust: the quotient is rounded to zero
TruncDiv(a, b) ==
    IF (a < 0) = (b < 0) THEN Abs(a) \div Abs(b) ELSE -(Abs(a) \div Abs(b))

TruncRem(a, b) == a - b * TruncDiv(a, b)

\* DateTime::<Utc>::from_timestamp(secs, nsecs) as nanoseconds since the
\* epoch; nsecs of a second or more stand for a leap second, which is only
\* accepted in the last second of a minute
from_timestamp(secs, nsecs) ==
    IF nsecs >= NanosPerSec /\ ~(secs % 60 = 59 /\ nsecs - NanosPerSec < NanosPerSec)
    THEN None
    ELSE Some(secs * NanosPerSec + nsecs)

\* one row of the CSV file; the translation_* and rotation_* columns are
\* held as the Transform that get_transform builds from them
CsvRecord(parent_frame_id, child_frame_id, timestamp, timestamp_sec, timestamp_nanosec, transform) ==
    [parent_frame_id |-> parent_frame_id, child_frame_id |-> child_frame_id,
     timestamp |-> timestamp, timestamp_sec |-> timestamp_sec,
     timestamp_nanosec |-> timestamp_nanosec, transform |-> transform]

\* CsvRecord::transform_id
csv_transform_id(record) == <<record.parent_frame_id, record.child_frame_id>>

\* timestamp_f64.trunc() as i64
TruncSeconds(f) == TruncDiv(f[1], f[2])

\* (timestamp_f64.fract().abs() * 1_000_000_000.0).round() as u32
FractNanos(f) ==
    LET rem == Abs(TruncRem(f[1], f[2]))
        whole == rem * (NanosPerSec \div f[2])
        part == rem * (NanosPerSec % f[2])
    IN  whole + (2 * part + f[2]) \div (2 * f[2])

\* CsvRecord::timestamp
csv_timestamp(record) ==
    IF /\ record.timestamp # None
       /\ (record.timestamp_sec # None \/ record.timestamp_nanosec # None)
    THEN Err("TimestampDefinedTwice")
    ELSE IF record.timestamp_sec # None
    THEN LET timestamp_nanosec == IF record.timestamp_nanosec = None THEN 0
                                  ELSE record.timestamp_nanosec.val
             timestamp == from_timestamp(record.timestamp_sec.val,
                                         timestamp_nanosec)
         IN  IF timestamp = None THEN Err("InvalidTimestamp")
             ELSE Ok(timestamp)
    ELSE IF record.timestamp # None
    THEN LET timestamp == from_timestamp(TruncSeconds(record.timestamp.val),
                                         FractNanos(record.timestamp.val))
         IN  IF timestamp = None THEN Err("InvalidTimestamp")
             ELSE Ok(timestamp)
    ELSE Ok(None)

\* CsvRecord::get_transform
get_transform(record) == record.transform

\* CsvRecord::get_timed_transform
get_timed_transform(record) ==
    LET timestamp == csv_timestamp(record)
    IN  IF ~IsOk(timestamp) THEN timestamp
        ELSE IF timestamp.val = None THEN Err("NoTimestamp")
        ELSE Ok(TimedTransform(timestamp.val.val, get_transform(record)))

\* derive_transform_edge
derive_transform_edge(id, records) ==
    IF Len(records) = 1 /\ IsOk(csv_timestamp(First(records)))
    THEN Ok(StaticTransform(id[1], id[2], get_transform(First(records))))
    ELSE LET timed == [i \in DOMAIN records |-> get_timed_transform(records[i])]
             failed == {i \in DOMAIN records : ~IsOk(timed[i])}
         IN  IF failed # {}
             THEN timed[CHOOSE i \in failed : \A j \in failed : i <= j]
             ELSE DynamicTransformNew(id[1], id[2], "none", "none",
                                      [i \in DOMAIN records |-> timed[i].val])

\* the rows of one TransformId, in the order of the file
SelectRecords(records, id) ==
    LET keep == {i \in DOMAIN records : csv_transform_id(records[i]) = id}
        nth(k) == CHOOSE i \in keep : Cardinality({j \in keep : j <= i}) = k
    IN  [k \in 1..Cardinality(keep) |-> records[nth(k)]]

\* records_grouped_by_transform_id
GroupedByTransformId(records) ==
    [id \in {csv_transform_id(records[i]) : i \in DOMAIN records} |->
        SelectRecords(records, id)]

\* ecoord::read_from_csv_file; `order` is the iteration order of the groups
ecoord_read_from_csv_file(records, order) ==
    LET grouped == GroupedByTransformId(records)
        derived == [i \in DOMAIN order |->
                       derive_transform_edge(order[i], grouped[order[i]])]
        failed == {i \in DOMAIN order : ~IsOk(derived[i])}
    IN  IF failed # {}
        THEN derived[CHOOSE i \in failed : \A j \in failed : i <= j]
        ELSE Ok(TransformTreeNew([i \in DOMAIN order |-> derived[i].val],
                                 << >>))

\* the defaults of KittiReader::new
TRAJECTORY_CHANNEL_ID == "slam"
TRAJECTORY_FRAME_ID == "world_offset"
TRAJECTORY_CHILD_FRAME_ID == "base_link"
WORLD_OFFSET_CHANNEL_ID == "world_offset"
WORLD_FRAME_ID == "world"

\* chrono's TimeDelta / i32 on the (secs, nanos) pair of a duration given in
\* nanoseconds: both parts are divided with truncation
TimeDeltaDiv(total, rhs) ==
    LET self_secs == total \div NanosPerSec
        self_nanos == total % NanosPerSec
        secs == TruncDiv(self_secs, rhs)
        carry == TruncRem(self_secs, rhs)
        extra_nanos == TruncDiv(carry * NanosPerSec, rhs)
        nanos == TruncDiv(self_nanos, rhs) + extra_nanos
    IN  secs * NanosPerSec + nanos

\* let step_duration = total_duration / records_isometries.len() as i32
step_duration(start_date_time, stop_date_time, n) ==
    TimeDeltaDiv(stop_date_time - start_date_time, n)

\* kitti::read_from_csv_file; a row is the isometry its matrix converts to, or
\* None when nalgebra::try_convert fails; `order` is the iteration order of
\* the transforms map inside ReferenceFrames::new
kitti_read_from_csv_file(records, start_date_time, stop_date_time, world_offset, order) ==
    IF \E i \in DOMAIN records : records[i] = None
    THEN Err("IsometryNotDerivable")
    ELSE IF Len(records) = 0 THEN Panic
    ELSE LET step == step_duration(start_date_time, stop_date_time, Len(records))
             transforms == [i \in DOMAIN records |->
                               TimedTransform(start_date_time + step * (i - 1),
                                              records[i].val)]
             trajectory_id == <<TRAJECTORY_FRAME_ID, TRAJECTORY_CHILD_FRAME_ID>>
             world_transform_id == <<WORLD_FRAME_ID, TRAJECTORY_FRAME_ID>>
             trajectory_key == <<TRAJECTORY_CHANNEL_ID, trajectory_id>>
             world_key == <<WORLD_OFFSET_CHANNEL_ID, world_transform_id>>
             keys == IF world_offset = None THEN {trajectory_key}
                     ELSE {trajectory_key, world_key}
             ids == IF world_offset = None THEN {trajectory_id}
                    ELSE {trajectory_id, world_transform_id}
         IN  ReferenceFramesNew(
                 [k \in keys |->
                     IF k = trajectory_key THEN transforms
                     ELSE << TimedTransform(start_date_time,
                                 Transform(world_offset.val, R0)) >>],
                 << >>, << >>,
                 [id \in ids |->
                     IF id = trajectory_id
                     THEN TransformInfo("linear", "constant")
                     ELSE TransformInfo("step", "constant")],
                 order)

\* =========================================================== state
VARIABLES
    edge,         \* SpecEdge: the DynamicTransform under test (Ok / Err)
    edges,        \* TransformTree.edges: TransformId -> TransformEdge
    frames,       \* TransformTree.frames: FrameId -> FrameInfo
    frame_graph,  \* TransformTree.frame_graph (derived at construction)
    nops,         \* number of mutating calls made on the tree so far
    reference_frames, \* SpecChannels: the ReferenceFrames under test
    octree,       \* SpecOctree: the Octree::new call under way, or its outcome
    call,         \* the last call made and its arguments
    result        \* what that call returned

vars == <<edge, edges, frames, frame_graph, nops, reference_frames, octree, call, result>>

NoCall == [op |-> "none"]
NoEdge == [kind |-> "unused"]
NoReferenceFrames == [kind |-> "unused"]
NoOctree == [kind |-> "unused"]
EmptyMap == << >>
EmptyGraph == [nodes |-> {}, arcs |-> {}]

\* ----------------------------------------------------------- inputs
SampleTimes == {k * Tick : k \in 1..MaxTick}
QueryTimes == {k * Tick : k \in 0..(MaxTick + 1)}
\* the two transforms of test_get_previous::test_basic_interpolation
TransformInputs ==
    { Transform(Vector3(0, 0, 0), FromRoll(1, 2)),
      Transform(Vector3(3, 6, -9), FromRoll(2, 1)) }
SampleInputs ==
    {TimedTransform(t, x) : t \in SampleTimes, x \in TransformInputs}
\* tests::test_basic_interpolation (samples at ticks 1 and 4)
TestInterpolationSamples ==
    << TimedTransform(1 * Tick,
                      Transform(Vector3(0, 0, 0), FromRoll(1, 2))),
       TimedTransform(4 * Tick,
                      Transform(Vector3(3, 6, -9), FromRoll(2, 1))) >>
\* tests::test_linear_extrapolation_after / _before (ticks 1 and 2)
TestExtrapolationSamples ==
    << TimedTransform(1 * Tick,
                      Transform(Vector3(1, 2, 3), FromRoll(0, 1))),
       TimedTransform(2 * Tick,
                      Transform(Vector3(2, 3, 4), FromRoll(1, 1))) >>
SampleLists ==
    (UNION {[1..n -> SampleInputs] : n \in 0..MaxLen})
        \cup {TestInterpolationSamples, TestExtrapolationSamples}
TimeBounds == {None} \cup {Some(t) : t \in QueryTimes}
InterpolationOptions == {"none", "step", "linear"}
ExtrapolationOptions == {"none", "constant", "linear"}

\* ============================================ SpecEdge: one dynamic edge
InitEdge ==
    /\ \E samples \in SampleLists,
          i \in InterpolationOptions, e \in ExtrapolationOptions :
          edge = DynamicTransformNew("odom", "base_link", i, e, samples)
    /\ edges = EmptyMap
    /\ frames = EmptyMap
    /\ frame_graph = EmptyGraph
    /\ nops = 0
    /\ reference_frames = NoReferenceFrames
    /\ octree = NoOctree
    /\ call = NoCall
    /\ result = None

TreeUnchanged == UNCHANGED <<edges, frames, frame_graph, nops, reference_frames, octree>>

\* the library is synchronous: a call is made when no call is in flight,
\* and the caller takes the result before it makes the next call
Return ==
    /\ call # NoCall
    /\ call' = NoCall
    /\ result' = None
    /\ UNCHANGED edge /\ TreeUnchanged

Interpolate(t) ==
    /\ IsOk(edge) /\ call = NoCall
    /\ call' = [op |-> "interpolate", timestamp |-> t]
    /\ result' = interpolate(edge.val, t)
    /\ UNCHANGED edge /\ TreeUnchanged

InterAndExtrapolate(t, i, e) ==
    /\ IsOk(edge) /\ call = NoCall
    /\ call' = [op |-> "inter_and_extrapolate_transforms", timestamp |-> t,
                interpolation |-> i, extrapolation |-> e]
    /\ result' = inter_and_extrapolate_transforms(edge.val.samples,
                                                  Some(t), i, e)
    /\ UNCHANGED edge /\ TreeUnchanged

ExtrapolateConstant(t) ==
    /\ IsOk(edge) /\ call = NoCall
    /\ call' = [op |-> "extrapolate_constant", timestamp |-> t]
    /\ result' = extrapolate_constant(edge.val.samples, t)
    /\ UNCHANGED edge /\ TreeUnchanged

ExtrapolateLinear(t) ==
    /\ IsOk(edge) /\ call = NoCall
    /\ call' = [op |-> "extrapolate_linear", timestamp |-> t]
    /\ result' = extrapolate_linear(edge.val.samples, t)
    /\ UNCHANGED edge /\ TreeUnchanged

InterpolateStepFunction(t) ==
    /\ IsOk(edge) /\ call = NoCall
    /\ call' = [op |-> "interpolate_step_function", timestamp |-> t]
    /\ result' = interpolate_step_function(edge.val.samples, t)
    /\ UNCHANGED edge /\ TreeUnchanged

InterpolateLinearly(t) ==
    /\ IsOk(edge) /\ call = NoCall
    /\ call' = [op |-> "interpolate_linearly", timestamp |-> t]
    /\ result' = interpolate_linearly(edge.val.samples, t)
    /\ UNCHANGED edge /\ TreeUnchanged

GetPreviousTransform(t) ==
    /\ IsOk(edge) /\ call = NoCall
    /\ call' = [op |-> "get_previous_transform", timestamp |-> t]
    /\ result' = get_previous_transform(edge.val.samples, t)
    /\ UNCHANGED edge /\ TreeUnchanged

GetNextTransform(t) ==
    /\ IsOk(edge) /\ call = NoCall
    /\ call' = [op |-> "get_next_transform", timestamp |-> t]
    /\ result' = get_next_transform(edge.val.samples, t)
    /\ UNCHANGED edge /\ TreeUnchanged

New(samples, i, e) ==
    /\ call = NoCall
    /\ edge' = DynamicTransformNew("odom", "base_link", i, e, samples)
    /\ call' = [op |-> "new", samples |-> samples,
                interpolation |-> i, extrapolation |-> e]
    /\ result' = edge'
    /\ TreeUnchanged

FilterSamplesByTime(start_time, end_time) ==
    /\ IsOk(edge) /\ call = NoCall
    /\ LET r == filter_samples_by_time(edge.val, start_time, end_time)
       IN  /\ edge' = Ok(r.self)
           /\ result' = r.result
    /\ call' = [op |-> "filter_samples_by_time", self |-> edge.val,
                start_time |-> start_time, end_time |-> end_time]
    /\ TreeUnchanged

NextEdge ==
    \/ \E t \in QueryTimes : Interpolate(t)
    \/ \E t \in QueryTimes, i \in {"step", "linear"},
          e \in {"constant", "linear"} : InterAndExtrapolate(t, i, e)
    \/ \E t \in QueryTimes : ExtrapolateConstant(t)
    \/ \E t \in QueryTimes : ExtrapolateLinear(t)
    \/ \E t \in QueryTimes : InterpolateStepFunction(t)
    \/ \E t \in QueryTimes : InterpolateLinearly(t)
    \/ \E t \in QueryTimes : GetPreviousTransform(t)
    \/ \E t \in QueryTimes : GetNextTransform(t)
    \/ \E samples \in SampleLists : New(samples, "none", "none")
    \/ \E start_time, end_time \in TimeBounds :
          FilterSamplesByTime(start_time, end_time)
    \/ Return

SpecEdge == InitEdge /\ [][NextEdge]_vars

\* =============================================== Spec: a TransformTree
FrameIds == {"A", "B", "C", "D"}
QueryIds == {<<p, c>> : p \in FrameIds, c \in FrameIds} \ {<<f, f>> : f \in FrameIds}

Dynamic(p, c, i, e, samples) == DynamicTransformNew(p, c, i, e, samples).val
SingleSample ==
    << TimedTransform(2 * Tick, Transform(Vector3(7, 0, 1), FromRoll(3, 1))) >>

E_AB == StaticTransform("A", "B", Transform(Vector3(1, 2, 0), FromRoll(1, 1)))
E_BC == Dynamic("B", "C", "linear", "constant", TestInterpolationSamples)
E_CD == StaticTransform("C", "D", Transform(Vector3(0, 5, 0), FromRoll(0, 1)))
E_BD == Dynamic("B", "D", "none", "none", TestExtrapolationSamples)
E_AC == Dynamic("A", "C", "linear", "linear", TestExtrapolationSamples)
E_DA == StaticTransform("D", "A", Transform(Vector3(3, 0, 0), FromRoll(2, 1)))
E_AB2 == Dynamic("A", "B", "step", "constant", SingleSample)
EdgeCatalogue == {E_AB, E_BC, E_CD, E_BD, E_AC, E_DA, E_AB2}
RemoveIds == {transform_id(e) : e \in EdgeCatalogue}

Fixture(e, f) == [edge_list |-> e, frame_list |-> f]
TreeFixtures ==
    { Fixture(<< >>, << >>),
      Fixture(<<E_AB>>, << >>),
      Fixture(<<E_AB, E_BC, E_CD>>, <<FrameInfo("A", Some("world"), Some(25832))>>),
      Fixture(<<E_AB, E_BC, E_BD>>, << >>),
      Fixture(<<E_AB, E_AC, E_BD, E_CD>>, << >>),
      Fixture(<<E_AC, E_BC, E_CD>>, << >>),
      Fixture(<<E_AB, E_BD, E_DA>>, << >>),
      Fixture(<<E_AB, E_CD, E_AB2>>, << >>),
      Fixture(<<E_AB2, E_BC>>, << >>) }

CurTree == Tree(edges, frames, frame_graph)

Init ==
    /\ \E fx \in TreeFixtures :
          LET tree == TransformTreeNew(fx.edge_list, fx.frame_list)
          IN  /\ edges = tree.edges
              /\ frames = tree.frames
              /\ frame_graph = tree.frame_graph
    /\ edge = NoEdge
    /\ nops = 0
    /\ reference_frames = NoReferenceFrames
    /\ octree = NoOctree
    /\ call = NoCall
    /\ result = None

InsertEdge(e) ==
    /\ call = NoCall
    /\ nops < MaxOps
    /\ nops' = nops + 1
    /\ LET tree == TreeInsertEdge(CurTree, e)
       IN  /\ edges' = tree.edges
           /\ frames' = tree.frames
           /\ frame_graph' = tree.frame_graph
    /\ call' = [op |-> "insert_edge", edge |-> e]
    /\ result' = None
    /\ UNCHANGED <<edge, reference_frames, octree>>

RemoveTransform(id) ==
    /\ call = NoCall
    /\ nops < MaxOps
    /\ nops' = nops + 1
    /\ LET tree == TreeRemoveTransform(CurTree, id)
       IN  /\ edges' = tree.edges
           /\ frames' = tree.frames
           /\ frame_graph' = tree.frame_graph
    /\ call' = [op |-> "remove_transform", id |-> id]
    /\ result' = None
    /\ UNCHANGED <<edge, reference_frames, octree>>

RootFrames ==
    /\ call = NoCall
    /\ call' = [op |-> "root_frames"]
    /\ result' = Ok(graph_root_frames(frame_graph))
    /\ UNCHANGED edge /\ TreeUnchanged

ChildFrames ==
    /\ call = NoCall
    /\ call' = [op |-> "child_frames"]
    /\ result' = Ok(graph_child_frames(frame_graph))
    /\ UNCHANGED edge /\ TreeUnchanged

GetFrameIdPath(id) ==
    /\ call = NoCall
    /\ call' = [op |-> "get_frame_id_path", id |-> id]
    /\ result' = get_frame_id_path(frame_graph, id)
    /\ UNCHANGED edge /\ TreeUnchanged

GetTransformAtTime(id, t) ==
    /\ call = NoCall
    /\ call' = [op |-> "get_transform_at_time", id |-> id, timestamp |-> t]
    /\ result' = get_transform_at_time(CurTree, id, t)
    /\ UNCHANGED edge /\ TreeUnchanged

GetStaticTransform(id) ==
    /\ call = NoCall
    /\ call' = [op |-> "get_static_transform", id |-> id]
    /\ result' = get_static_transform(CurTree, id)
    /\ UNCHANGED edge /\ TreeUnchanged

IsTransformPathStatic(id) ==
    /\ call = NoCall
    /\ call' = [op |-> "is_transform_path_static", id |-> id]
    /\ result' = is_transform_path_static(CurTree, id)
    /\ UNCHANGED edge /\ TreeUnchanged

ComputeTimedTransformsForAllSamples(id) ==
    /\ call = NoCall
    /\ call' = [op |-> "compute_timed_transforms_for_all_samples", id |-> id]
    /\ result' = compute_timed_transforms_for_all_samples(CurTree, id)
    /\ UNCHANGED edge /\ TreeUnchanged

StaticSnapshotAt(t) ==
    /\ call = NoCall
    /\ call' = [op |-> "static_snapshot_at", timestamp |-> t]
    /\ result' = static_snapshot_at(CurTree, t)
    /\ UNCHANGED edge /\ TreeUnchanged

Next ==
    \/ \E e \in EdgeCatalogue : InsertEdge(e)
    \/ \E id \in RemoveIds : RemoveTransform(id)
    \/ RootFrames
    \/ ChildFrames
    \/ \E id \in QueryIds : GetFrameIdPath(id)
    \/ \E id \in QueryIds, t \in QueryTimes : GetTransformAtTime(id, t)
    \/ \E id \in QueryIds : GetStaticTransform(id)
    \/ \E id \in QueryIds : IsTransformPathStatic(id)
    \/ \E id \in QueryIds : ComputeTimedTransformsForAllSamples(id)
    \/ \E t \in QueryTimes : StaticSnapshotAt(t)
    \/ Return

Spec == Init /\ [][Next]_vars

\* ===================================== SpecChannels: a ReferenceFrames
ChannelIds == {"a", "b", "c"}
T_AB == <<"A", "B">>
T_BC == <<"B", "C">>
ChannelKeys == {<<c, T_AB>> : c \in ChannelIds} \cup {<<"b", T_BC>>}
\* each channel supplies its own, distinguishable samples
ChannelSamples(k) ==
    IF k[1] = "a" THEN TestInterpolationSamples
    ELSE IF k[1] = "b" THEN TestExtrapolationSamples
    ELSE SingleSample
Absent == [kind |-> "absent"]
\* per channel: no ChannelInfo, priority None, or a priority
PriorityInputs ==
    { p \in [ChannelIds -> {Absent, None, Some(-1), Some(1), Some(2)}] :
        /\ p["a"] \in {Absent, Some(-1), Some(1)}
        /\ p["b"] \in {None, Some(1)}
        /\ p["c"] \in {Absent, Some(2)} }
ChannelInfoOf(p) ==
    [c \in {x \in ChannelIds : p[x] # Absent} |-> ChannelInfo(p[c])]
TransformInfoInputs ==
    { EmptyMap, [id \in {T_AB} |-> TransformInfo("linear", "linear")] }
FrameInfoMap(id) == [f \in {id} |-> DefaultFrameInfo(id)]
\* the further inputs of merge
MergeInputs ==
    { ReferenceFrames(EmptyMap, FrameInfoMap("D"), EmptyMap, EmptyMap),
      ReferenceFrames(EmptyMap, EmptyMap, EmptyMap, EmptyMap),
      ReferenceFrames([k \in {<<"b", T_BC>>} |-> ChannelSamples(k)],
                      FrameInfoMap("B"),
                      [c \in {"b"} |-> ChannelInfo(Some(2))], EmptyMap),
      ReferenceFrames([k \in {<<"a", T_AB>>, <<"c", T_AB>>} |-> ChannelSamples(k)],
                      EmptyMap, EmptyMap,
                      [id \in {T_AB} |-> TransformInfo("step", "linear")]) }
\* merge is called with the ReferenceFrames under test and one or two more
MergeOthers ==
    {<<x>> : x \in MergeInputs}
        \cup {<<x, y>> : x \in MergeInputs,
                        y \in {ReferenceFrames(EmptyMap, FrameInfoMap("D"), EmptyMap, EmptyMap)}}
MergedKeys(inputs) ==
    UNION {DOMAIN inputs[i].transforms : i \in DOMAIN inputs}
SelectedChannelInputs == {None} \cup {Some(s) : s \in SUBSET ChannelIds}
TimestampInputs == {None} \cup {Some(k * Tick) : k \in {0, 2, MaxTick + 1}}

InitChannels ==
    /\ \/ \E keys \in SUBSET ChannelKeys, p \in PriorityInputs,
             info \in TransformInfoInputs, order \in Orders(ChannelKeys) :
             LET r == ReferenceFramesNew([k \in keys |-> ChannelSamples(k)],
                          EmptyMap, ChannelInfoOf(p), info, order)
             IN  IsOk(r) /\ reference_frames = r.val
       \/ reference_frames \in MergeInputs
    /\ octree = NoOctree
    /\ edge = NoEdge
    /\ edges = EmptyMap
    /\ frames = EmptyMap
    /\ frame_graph = EmptyGraph
    /\ nops = 0
    /\ call = NoCall
    /\ result = None

ChannelsUnchanged == UNCHANGED <<edge, edges, frames, frame_graph, nops, reference_frames, octree>>

GetChannelPriority(channel_id) ==
    /\ call = NoCall
    /\ call' = [op |-> "get_channel_priority", channel_id |-> channel_id]
    /\ result' = get_channel_priority(reference_frames, channel_id)
    /\ ChannelsUnchanged

\* the inputs are drawn after the guard: the iteration orders range over
\* the keys of the ReferenceFrames the call is made on
DeriveTransformGraph ==
    /\ call = NoCall
    /\ \E selected_channel_ids \in SelectedChannelInputs,
          selected_timestamp \in TimestampInputs,
          order \in Orders(DOMAIN reference_frames.transforms),
          id_order \in Orders({k[2] : k \in DOMAIN reference_frames.transforms}) :
          /\ call' = [op |-> "derive_transform_graph",
                      selected_channel_ids |-> selected_channel_ids,
                      selected_timestamp |-> selected_timestamp,
                      order |-> order, id_order |-> id_order]
          /\ result' = derive_transform_graph(reference_frames,
                           selected_channel_ids, selected_timestamp,
                           order, id_order)
    /\ ChannelsUnchanged

Merge ==
    /\ call = NoCall
    /\ \E others \in MergeOthers :
          \E order \in Orders(MergedKeys(<<reference_frames>> \o others)) :
              /\ call' = [op |-> "merge",
                          reference_frames |-> <<reference_frames>> \o others,
                          order |-> order]
              /\ result' = merge(<<reference_frames>> \o others, order)
    /\ ChannelsUnchanged

NextChannels ==
    \/ \E c \in ChannelIds \cup {"z"} : GetChannelPriority(c)
    \/ DeriveTransformGraph
    \/ Merge
    \/ Return

SpecChannels == InitChannels /\ [][NextChannels]_vars

\* ================= SpecSamples: the sample vectors of a ReferenceFrames
SampleKeys == {<<"a", T_AB>>, <<"b", T_AB>>}
\* no samples, one, two in order, two out of order, two at one timestamp
SampleVectors ==
    { << >>, SingleSample, TestExtrapolationSamples,
      << TestExtrapolationSamples[2], TestExtrapolationSamples[1] >>,
      << SingleSample[1],
         TimedTransform(2 * Tick, Transform(Vector3(0, 0, 0), FromRoll(0, 1))) >> }

InitSamples ==
    /\ \E keys \in SUBSET SampleKeys :
          \E transforms \in [keys -> SampleVectors], order \in Orders(keys) :
              LET r == ReferenceFramesNew(transforms, EmptyMap, EmptyMap,
                                          EmptyMap, order)
              IN  IsOk(r) /\ reference_frames = r.val
    /\ octree = NoOctree
    /\ edge = NoEdge
    /\ edges = EmptyMap
    /\ frames = EmptyMap
    /\ frame_graph = EmptyGraph
    /\ nops = 0
    /\ call = NoCall
    /\ result = None

SamplesUnchanged == UNCHANGED <<edge, edges, frames, frame_graph, octree>>

AddTransforms ==
    /\ call = NoCall
    /\ nops < MaxOps
    /\ nops' = nops + 1
    /\ \E k \in SampleKeys, transforms \in SampleVectors,
          channel_info \in {None, Some(ChannelInfo(Some(1)))},
          transform_info \in {None, Some(TransformInfo("linear", "linear"))} :
          LET r == add_transforms(reference_frames, k[1], k[2], transforms,
                                  channel_info, transform_info)
          IN  /\ call' = [op |-> "add_transforms", channel_id |-> k[1],
                          transform_id |-> k[2], transforms |-> transforms,
                          channel_info |-> channel_info,
                          transform_info |-> transform_info]
              /\ result' = r.result
              /\ reference_frames' = r.self
    /\ SamplesUnchanged

ExtendTransforms ==
    /\ call = NoCall
    /\ nops < MaxOps
    /\ nops' = nops + 1
    /\ \E k \in SampleKeys, transforms \in SampleVectors :
          LET r == extend_transforms(reference_frames, k[1], k[2], transforms)
          IN  /\ call' = [op |-> "extend_transforms", channel_id |-> k[1],
                          transform_id |-> k[2], transforms |-> transforms]
              /\ result' = r.result
              /\ reference_frames' = r.self
    /\ SamplesUnchanged

NextSamples == AddTransforms \/ ExtendTransforms \/ Return

SpecSamples == InitSamples /\ [][NextSamples]_vars

\* ================================================ SpecOctree: Octree::new
P(x, y, z) == Point3(Rat(x), Rat(y), Rat(z))
\* points, one of them on the plane that halves the cube of the others,
\* and an item with an extent
ItemInputs ==
    { PointItem(P(0, 0, 0)), PointItem(P(2, 2, 2)), PointItem(P(1, 1, 1)),
      PointItem(P(3, 1, 0)),
      Item(P(1, 2, 1), P(0, 0, 0), P(2, 4, 2)) }
ItemLists == UNION {[1..n -> ItemInputs] : n \in 0..MaxItems}
CapInputs == {0, 1, 2}
\* no seed, or a seed, given by the permutation its shuffle produces on a
\* list of this length (a reversal, a rotation)
ShuffleInputs(items) ==
    {None, Some([i \in 1..Len(items) |-> Len(items) + 1 - i]),
           Some([i \in 1..Len(items) |-> (i % Len(items)) + 1])}

InitOctree ==
    /\ \E items \in ItemLists, max_items_per_octant \in CapInputs :
          \E shuffle \in ShuffleInputs(items) :
              /\ call = [op |-> "Octree::new", items |-> items,
                         max_items_per_octant |-> max_items_per_octant,
                         shuffle |-> shuffle]
              /\ octree = StartOctree(items, max_items_per_octant, shuffle)
    /\ result = None
    /\ edge = NoEdge
    /\ edges = EmptyMap
    /\ frames = EmptyMap
    /\ frame_graph = EmptyGraph
    /\ nops = 0
    /\ reference_frames = NoReferenceFrames

OctreeUnchanged == UNCHANGED <<edge, edges, frames, frame_graph, nops, reference_frames, call>>

\* one pass of the while loop of compute_octree
SubDivide ==
    /\ octree.kind = "building"
    /\ DOMAIN octree.pending_items # {}
    /\ octree.rounds < MaxRounds
    /\ octree' = Round(octree)
    /\ UNCHANGED result
    /\ OctreeUnchanged

\* the loop ends, Octree::new returns the octree
OctreeBuilt ==
    /\ octree.kind = "building"
    /\ DOMAIN octree.pending_items = {}
    /\ octree' = FinishOctree(octree)
    /\ result' = octree'
    /\ OctreeUnchanged

\* derive_octree_bounds failed, Octree::new returns the error
OctreeFailed ==
    /\ octree.kind = "err"
    /\ result = None
    /\ result' = octree
    /\ UNCHANGED octree
    /\ OctreeUnchanged

NextOctree == SubDivide \/ OctreeBuilt \/ OctreeFailed

SpecOctree == InitOctree /\ [][NextOctree]_vars

\* Octree::new runs to its end unless its loop does: a step that is
\* possible is taken
SpecOctreeLive == SpecOctree /\ WF_vars(NextOctree)

\* ================== SpecOctreeRound: the pairs of a round in any order
\* item lists that fill one, two and three levels, and one that leaves two
\* pending octants after the second round
RoundItemLists ==
    { << >>,
      << PointItem(P(0, 0, 0)), PointItem(P(2, 2, 2)) >>,
      << PointItem(P(0, 0, 0)), PointItem(P(2, 2, 2)), PointItem(P(3, 1, 0)) >>,
      << PointItem(P(1, 1, 1)), PointItem(P(1, 1, 1)), PointItem(P(1, 1, 1)) >>,
      << PointItem(P(0, 0, 0)), PointItem(P(0, 0, 0)), PointItem(P(0, 0, 0)),
         PointItem(P(3, 3, 3)), PointItem(P(3, 3, 3)) >> }
RoundCapInputs == {1, 2}
\* no round of the loop is under way
Idle == [phase |-> "idle", todo |-> {}, results |-> {}, collected |-> << >>]
\* the build b with the progress of its current round
WithRound(b, round) ==
    [kind |-> b.kind, items |-> b.items,
     max_items_per_octant |-> b.max_items_per_octant, bounds |-> b.bounds,
     occupancy_graph |-> b.occupancy_graph, pending_items |-> b.pending_items,
     final_items |-> b.final_items, rounds |-> b.rounds, round |-> round]

InitOctreeRound ==
    /\ \E items \in RoundItemLists, max_items_per_octant \in RoundCapInputs :
          \E shuffle \in {None, Some([i \in 1..Len(items) |-> Len(items) + 1 - i])} :
              /\ call = [op |-> "Octree::new", items |-> items,
                         max_items_per_octant |-> max_items_per_octant,
                         shuffle |-> shuffle]
              /\ octree = IF IsOk(derive_octree_bounds(items))
                          THEN WithRound(StartOctree(items, max_items_per_octant, shuffle), Idle)
                          ELSE StartOctree(items, max_items_per_octant, shuffle)
    /\ result = None
    /\ edge = NoEdge
    /\ edges = EmptyMap
    /\ frames = EmptyMap
    /\ frame_graph = EmptyGraph
    /\ nops = 0
    /\ reference_frames = NoReferenceFrames

\* sub_divide is entered: the (parent, child) pairs of the round are known
StartRound ==
    /\ octree.kind = "building"
    /\ octree.round.phase = "idle"
    /\ DOMAIN octree.pending_items # {}
    /\ octree.rounds < MaxRounds
    /\ octree' = [octree EXCEPT !.round =
                     [phase |-> "map",
                      todo |-> get_child_pairs(DOMAIN octree.pending_items),
                      results |-> {}, collected |-> << >>]]
    /\ UNCHANGED result
    /\ OctreeUnchanged

\* par_iter().map(..): some worker runs the closure on some pair
MapPair ==
    /\ octree.kind = "building"
    /\ octree.round.phase = "map"
    /\ \E pair \in octree.round.todo :
           octree' = [octree EXCEPT !.round =
               [phase |-> IF octree.round.todo = {pair} THEN "apply" ELSE "map",
                todo |-> octree.round.todo \ {pair},
                results |-> octree.round.results
                    \cup {sub_divide_pair(octree.items, octree.pending_items,
                              octree.bounds, octree.max_items_per_octant, pair)},
                collected |-> << >>]]
    /\ UNCHANGED result
    /\ OctreeUnchanged

\* the rest of the loop body for one result, the results taken in any order:
\* add_cell_occupancy, final_items.extend and the collect into the next
\* pending_items, which replaces pending_items with the last result
ApplyResult ==
    /\ octree.kind = "building"
    /\ octree.round.phase = "apply"
    /\ \E r \in octree.round.results :
           LET last == octree.round.results = {r}
               collected == pending_items_collect(octree.round.collected, r)
           IN  octree' =
                   [octree EXCEPT
                       !.occupancy_graph = add_cell_occupancy(@, r.octant_index),
                       !.final_items = final_items_extend(@, r),
                       !.pending_items = IF last THEN collected ELSE @,
                       !.rounds = IF last THEN @ + 1 ELSE @,
                       !.round = IF last THEN Idle
                                 ELSE [phase |-> "apply", todo |-> {},
                                       results |-> octree.round.results \ {r},
                                       collected |-> collected]]
    /\ UNCHANGED result
    /\ OctreeUnchanged

\* the loop ends between two rounds
OctreeRoundBuilt ==
    /\ octree.kind = "building"
    /\ octree.round.phase = "idle"
    /\ DOMAIN octree.pending_items = {}
    /\ octree' = FinishOctree(octree)
    /\ result' = octree'
    /\ OctreeUnchanged

NextOctreeRound ==
    StartRound \/ MapPair \/ ApplyResult \/ OctreeRoundBuilt \/ OctreeFailed

SpecOctreeRound == InitOctreeRound /\ [][NextOctreeRound]_vars

\* ============================================ SpecIo: the CSV readers
MaxRows == 2
\* the timestamp columns of a row: timestamp, timestamp_sec, timestamp_nanosec
TimestampColumns ==
    { <<None, None, None>>,
      <<None, Some(0), None>>,
      <<None, Some(0), Some(Tick)>>,
      <<Some(<<1, 1000000>>), None, None>>,
      <<Some(<<1, 500000>>), None, None>>,
      <<Some(<<1, 1000000>>), Some(0), None>>,
      <<None, Some(0), Some(NanosPerSec)>> }
CsvTransformIds == {<<"A", "B">>, <<"B", "C">>}
CsvRows ==
    { CsvRecord(id[1], id[2], t[1], t[2], t[3],
                Transform(Vector3(1, 2, 0), FromRoll(1, 1))) :
          id \in CsvTransformIds, t \in TimestampColumns }
CsvFiles == UNION {[1..n -> CsvRows] : n \in 0..MaxRows}
\* a KITTI row whose matrix is a rigid motion, and one whose matrix is not
KittiRows == {Some(Transform(Vector3(0, 1, 0), FromRoll(1, 1))), None}
KittiFiles == UNION {[1..n -> KittiRows] : n \in 0..(MaxRows + 1)}
\* the windows (start, stop) in nanoseconds, start before stop
KittiWindows ==
    {<<start, start + d>> : start \in {0, Tick}, d \in {1, 3, 5, 6}}
WorldOffsets == {None, Some(Vector3(10, 0, 0))}

InitIo ==
    /\ \/ \E records \in CsvFiles :
              call = [op |-> "ecoord::read_from_csv_file", records |-> records]
       \/ \E records \in KittiFiles, w \in KittiWindows, o \in WorldOffsets :
              call = [op |-> "kitti::read_from_csv_file", records |-> records,
                      start_date_time |-> w[1], stop_date_time |-> w[2],
                      world_offset |-> o]
    /\ result = None
    /\ octree = NoOctree
    /\ edge = NoEdge
    /\ edges = EmptyMap
    /\ frames = EmptyMap
    /\ frame_graph = EmptyGraph
    /\ nops = 0
    /\ reference_frames = NoReferenceFrames

IoUnchanged == UNCHANGED <<edge, edges, frames, frame_graph, nops, reference_frames, octree, call>>

EcoordReadFromCsvFile ==
    /\ call.op = "ecoord::read_from_csv_file"
    /\ result = None
    /\ \E order \in Orders(DOMAIN GroupedByTransformId(call.records)) :
           result' = ecoord_read_from_csv_file(call.records, order)
    /\ IoUnchanged

KittiReadFromCsvFile ==
    /\ call.op = "kitti::read_from_csv_file"
    /\ result = None
    /\ \E order \in Orders({<<TRAJECTORY_CHANNEL_ID, <<TRAJECTORY_FRAME_ID, TRAJECTORY_CHILD_FRAME_ID>> >>} \cup (IF call.world_offset = None THEN {} ELSE {<<WORLD_OFFSET_CHANNEL_ID, <<WORLD_FRAME_ID, TRAJECTORY_FRAME_ID>> >>})) :
           result' = kitti_read_from_csv_file(call.records,
                         call.start_date_time, call.stop_date_time,
                         call.world_offset, order)
    /\ IoUnchanged

NextIo == EcoordReadFromCsvFile \/ KittiReadFromCsvFile

SpecIo == InitIo /\ [][NextIo]_vars

\* ============================================ SpecMorton: Morton codes
\* coordinates with bits below, at and above position 21 and at position 32
XInputs == SUBSET {0, 20, 21, 32}
YInputs == SUBSET {0, 21}
ZInputs == SUBSET {20}
\* the octants OctantIndex::new accepts at the levels 22 and 33
OctantInputs ==
    {o \in [level : {22, 33}, x : XInputs, y : YInputs, z : ZInputs] :
        (o.x \cup o.y \cup o.z) \subseteq 0..(o.level - 1)}

InitMorton ==
    /\ \/ \E o \in OctantInputs : call = [op |-> "morton_index", self |-> o]
       \/ \E o1, o2 \in OctantInputs :
              call = [op |-> "sort_by_morton_indices", self |-> <<o1, o2>>]
    /\ result = None
    /\ octree = NoOctree
    /\ edge = NoEdge
    /\ edges = EmptyMap
    /\ frames = EmptyMap
    /\ frame_graph = EmptyGraph
    /\ nops = 0
    /\ reference_frames = NoReferenceFrames

MortonIndex ==
    /\ call.op = "morton_index"
    /\ result = None
    /\ result' = morton_index(call.self)
    /\ IoUnchanged

SortByMortonIndices ==
    /\ call.op = "sort_by_morton_indices"
    /\ result = None
    /\ result' = sort_by_morton_indices(call.self)
    /\ IoUnchanged

NextMorton == MortonIndex \/ SortByMortonIndices

SpecMorton == InitMorton /\ [][NextMorton]_vars

\* ================================================= properties, SpecEdge
Samples == edge.val.samples
T0 == First(Samples).timestamp
Tn == Last(Samples).timestamp
\* a call of one of the two evaluation entry points
EngineCall ==
    IsOk(edge) /\ call.op \in {"interpolate", "inter_and_extrapolate_transforms"}
InterpolationOfCall ==
    IF call.op = "interpolate"
    THEN InterpolationOrDefault(edge.val.interpolation)
    ELSE call.interpolation
ExtrapolationOfCall ==
    IF call.op = "interpolate"
    THEN ExtrapolationOrDefault(edge.val.extrapolation)
    ELSE call.extrapolation
Returns(x) == IsOk(result) /\ TransformEq(result.val, x)
\* the sample with the greatest timestamp not after t
GreatestNotAfter(t) ==
    CHOOSE i \in 1..Len(Samples) :
        /\ Samples[i].timestamp <= t
        /\ \A j \in 1..Len(Samples) :
               Samples[j].timestamp <= t
                   => Samples[j].timestamp <= Samples[i].timestamp
\* (1 - a) * u + a * v
Blend(u, v, a) == VAdd(VScale(RSub(R1, a), u), VScale(a, v))
Weight(s1, s2, t) ==
    RDiv(Rat(t - s1.timestamp), Rat(s2.timestamp - s1.timestamp))

\* C5: evaluating a sample sequence at the timestamp of one of its samples
\* returns that sample's transform, for both interpolation methods and
\* whatever the extrapolation method is (also at the last sample).
C5_SampleTimeReturnsSample ==
    EngineCall =>
        \A i \in 1..Len(Samples) :
            Samples[i].timestamp = call.timestamp
                => Returns(Samples[i].transform)

\* C6: a sequence whose samples all carry the same transform evaluates to
\* that transform at every query time under every method combination.
C6_StaticSequenceIsConstant ==
    (EngineCall /\ is_static(Samples)) => Returns(First(Samples).transform)

\* C7: with constant extrapolation the result at t <= t0 is the first
\* sample and at t >= tn the last sample, for either interpolation method.
C7_ConstantExtrapolation ==
    (EngineCall /\ ExtrapolationOfCall = "constant") =>
        /\ call.timestamp <= T0 => Returns(First(Samples).transform)
        /\ call.timestamp >= Tn => Returns(Last(Samples).transform)

\* C8: with step interpolation and t0 <= t <= tn the result is the sample
\* with the greatest timestamp <= t; get_previous_transform returns that
\* sample and returns none exactly when t is before the first sample.
C8_StepGreatestNotAfter ==
    /\ (/\ \/ EngineCall /\ InterpolationOfCall = "step"
           \/ IsOk(edge) /\ call.op = "interpolate_step_function"
        /\ T0 <= call.timestamp /\ call.timestamp <= Tn)
          => Returns(Samples[GreatestNotAfter(call.timestamp)].transform)
    /\ (IsOk(edge) /\ call.op = "get_previous_transform") =>
          /\ result = None <=> call.timestamp < T0
          /\ call.timestamp >= T0
                => result = Some(Samples[GreatestNotAfter(call.timestamp)])

\* the bracketing pair of t: adjacent samples with prev.t <= t < next.t,
\* on the last interval when t = tn
BracketOf(t) ==
    IF t = Tn THEN Len(Samples) - 1
    ELSE CHOOSE i \in 1..(Len(Samples) - 1) :
            Samples[i].timestamp <= t /\ t < Samples[i + 1].timestamp

\* C9: with linear interpolation and t0 <= t <= tn the result blends the
\* bracketing samples with weight a = (t - prev.t) / (next.t - prev.t),
\* 0 <= a <= 1; the test samples give (1, 2, -3) at tick 2.
C9_LinearInterpolation ==
    (/\ \/ EngineCall /\ InterpolationOfCall = "linear"
        \/ IsOk(edge) /\ call.op = "interpolate_linearly"
     /\ Len(Samples) >= 2
     /\ T0 <= call.timestamp /\ call.timestamp <= Tn)
       => LET i == BracketOf(call.timestamp)
              a == Weight(Samples[i], Samples[i + 1], call.timestamp)
          IN  /\ RLeq(R0, a) /\ RLeq(a, R1)
              /\ IsOk(result)
              /\ result.val.translation =
                     Blend(Samples[i].transform.translation,
                           Samples[i + 1].transform.translation, a)
              /\ RotEq(result.val.rotation,
                       Slerp(Samples[i].transform.rotation,
                             Samples[i + 1].transform.rotation, a))
              /\ (Samples = TestInterpolationSamples
                  /\ call.timestamp = 2 * Tick)
                    => /\ result.val.translation = Vector3(1, 2, -3)
                       /\ RotEq(result.val.rotation, FromRoll(1, 1))

\* C10: linear extrapolation of a sequence of two or more samples uses the
\* first two samples before the range and the last two after it, with the
\* unclamped weight a = (t - s1.t) / (s2.t - s1.t); the test samples give
\* (3, 4, 5) at tick 3 and (0, 1, 2) at tick 0.
C10_LinearExtrapolation ==
    (/\ \/ EngineCall /\ ExtrapolationOfCall = "linear"
        \/ IsOk(edge) /\ call.op = "extrapolate_linear"
     /\ Len(Samples) >= 2
     /\ call.timestamp < T0 \/ Tn < call.timestamp)
       => LET i == IF call.timestamp < T0 THEN 1 ELSE Len(Samples) - 1
              a == Weight(Samples[i], Samples[i + 1], call.timestamp)
          IN  /\ call.timestamp < T0 => RLess(a, R0)
              /\ Tn < call.timestamp => RLess(R1, a)
              /\ IsOk(result)
              /\ result.val.translation =
                     Blend(Samples[i].transform.translation,
                           Samples[i + 1].transform.translation, a)
              /\ (Samples = TestExtrapolationSamples
                  /\ call.timestamp = 3 * Tick)
                    => /\ result.val.translation = Vector3(3, 4, 5)
                       /\ RotEq(result.val.rotation, FromRoll(2, 1))
              /\ (Samples = TestExtrapolationSamples
                  /\ call.timestamp = 0)
                    => /\ result.val.translation = Vector3(0, 1, 2)
                       /\ RotEq(result.val.rotation, FromRoll(-1, 1))

\* C10 witness: an extrapolation past the last of several samples
C10_Witness ==
    /\ IsOk(edge) /\ call.op = "extrapolate_linear"
    /\ Samples = TestExtrapolationSamples
    /\ call.timestamp = 3 * Tick
    /\ IsOk(result)

\* ===================================================== properties, Spec
\* the tree is as TransformTree::new builds it from its own edges
BuiltByNew == frame_graph = FrameGraphNew(DOMAIN edges)

\* the directed simple paths of a graph, by definition: sequences of
\* distinct nodes that follow the arcs
DirectedSimplePaths(graph, from, to) ==
    {p \in UNION {[1..n -> graph.nodes] : n \in 2..Cardinality(graph.nodes)} :
        /\ p[1] = from /\ p[Len(p)] = to
        /\ \A i, j \in 1..Len(p) : i # j => p[i] # p[j]
        /\ \A i \in 1..(Len(p) - 1) : <<p[i], p[i + 1]>> \in graph.arcs}

\* the rule (t, q) o (t', q') = (t + q t', q q')
RigidProduct(a, b) ==
    [translation |-> VAdd(a.translation, VRot(a.rotation, b.translation)),
     rotation |-> RotNorm(RAdd(a.rotation, b.rotation))]
\* edge(f_i, f_i+1).at_time(t) o ... o edge(f_k-1, f_k).at_time(t)
RECURSIVE ComposeFrom(_, _, _)
ComposeFrom(path, i, t) ==
    IF i = Len(path) THEN Identity
    ELSE RigidProduct(at_time(edges[<<path[i], path[i + 1]>>], t).val,
                      ComposeFrom(path, i + 1, t))
EdgesEvaluate(path, t) ==
    \A i \in 1..(Len(path) - 1) :
        IsOk(at_time(edges[<<path[i], path[i + 1]>>], t))

\* C1: on a tree built by TransformTree::new, get_transform_at_time for two
\* frames joined by exactly one directed simple path returns the
\* composition of the path's edges evaluated at t, in path order.
C1_PathComposition ==
    (call.op = "get_transform_at_time" /\ BuiltByNew) =>
        LET paths == DirectedSimplePaths(frame_graph, call.id[1], call.id[2])
        IN  Cardinality(paths) = 1 =>
                LET path == CHOOSE p \in paths : TRUE
                IN  IF EdgesEvaluate(path, call.timestamp)
                    THEN IsOk(result)
                         /\ TransformEq(result.val,
                                        ComposeFrom(path, 1, call.timestamp))
                    ELSE result = Panic

\* C1 witness: a composition over three edges, one of them dynamic and
\* evaluated between two of its samples
C1_Witness ==
    /\ call.op = "get_transform_at_time" /\ BuiltByNew
    /\ call.id = <<"A", "D">> /\ call.timestamp = 2 * Tick
    /\ DirectedSimplePaths(frame_graph, "A", "D") = {<<"A", "B", "C", "D">>}
    /\ edges[<<"B", "C">>].type = "dynamic"
    /\ IsOk(result)

\* C2: get_frame_id_path returns InvalidFrameId when an endpoint is not a
\* node, else NoTransformPath when no directed simple path joins the pair,
\* else MultipleTransformPaths when two or more do, else the unique path.
C2_PathClassification ==
    call.op = "get_frame_id_path" =>
        LET parent == call.id[1]
            child == call.id[2]
            paths == DirectedSimplePaths(frame_graph, parent, child)
        IN  IF parent \notin frame_graph.nodes
            THEN result = ErrArg("InvalidFrameId", parent)
            ELSE IF child \notin frame_graph.nodes
            THEN result = ErrArg("InvalidFrameId", child)
            ELSE IF paths = {}
            THEN result = ErrArg("NoTransformPath", call.id)
            ELSE IF Cardinality(paths) >= 2
            THEN result = ErrArg("MultipleTransformPaths", call.id)
            ELSE /\ IsOk(result)
                 /\ paths = {result.val}
                 /\ result.val[1] = parent
                 /\ result.val[Len(result.val)] = child

\* C2 witness: the diamond A->B, A->C, B->D, C->D queried on (A, D)
C2_Witness ==
    /\ call.op = "get_frame_id_path" /\ call.id = <<"A", "D">>
    /\ frame_graph.arcs = {<<"A", "B">>, <<"A", "C">>, <<"B", "D">>, <<"C", "D">>}
    /\ result = ErrArg("MultipleTransformPaths", <<"A", "D">>)

\* the tree TransformTree::new produces from the current edges and frames
Rebuilt == TransformTreeNew(ValuesOf(edges), ValuesOf(frames))
\* the result of the call in flight when made on the tree `tree`
AnswerOn(tree) ==
    CASE call.op = "root_frames" -> Ok(graph_root_frames(tree.frame_graph))
      [] call.op = "child_frames" -> Ok(graph_child_frames(tree.frame_graph))
      [] call.op = "get_transform_at_time" ->
            get_transform_at_time(tree, call.id, call.timestamp)
      [] call.op = "get_static_transform" -> get_static_transform(tree, call.id)
      [] call.op = "is_transform_path_static" ->
            is_transform_path_static(tree, call.id)
      [] call.op = "compute_timed_transforms_for_all_samples" ->
            compute_timed_transforms_for_all_samples(tree, call.id)
PathQueries ==
    {"root_frames", "child_frames", "get_transform_at_time",
     "get_static_transform", "is_transform_path_static",
     "compute_timed_transforms_for_all_samples"}
\* edges were only inserted since the frame graph was built
OnlyInserted == frame_graph.arcs \subseteq DOMAIN edges

\* C3: after insert_edge calls, root_frames, child_frames and the path
\* queries answer as on the tree rebuilt from the edges and frames.
C3_InsertMatchesRebuild ==
    (call.op \in PathQueries /\ OnlyInserted) => result = AnswerOn(Rebuilt)

\* C4: static_snapshot_at(t) succeeds, holds static edges over the same
\* TransformIds and frames, and answers get_static_transform(id) as the
\* live tree answers get_transform_at_time(id, t), for every id that
\* resolves to a unique path.
C4_SnapshotMatchesLive ==
    (call.op = "static_snapshot_at" /\ BuiltByNew) =>
        \A id \in QueryIds :
            IsOk(get_frame_id_path(frame_graph, id)) =>
                /\ IsOk(result)
                /\ DOMAIN result.val.edges = DOMAIN edges
                /\ DOMAIN result.val.frames = DOMAIN frames
                /\ \A k \in DOMAIN edges : result.val.edges[k].type = "static"
                /\ LET live == get_transform_at_time(CurTree, id, call.timestamp)
                       snap == get_static_transform(result.val, id)
                   IN  /\ IsOk(live) /\ IsOk(snap)
                       /\ TransformEq(live.val, snap.val)

\* ============================== properties, DynamicTransform (SpecEdge)
\* the samples are in strictly ascending order of timestamp
StrictlyAscending(samples) ==
    \A i \in 1..(Len(samples) - 1) :
        samples[i].timestamp < samples[i + 1].timestamp
\* how often the sample x occurs in the list
Occurrences(samples, x) == Cardinality({i \in DOMAIN samples : samples[i] = x})
\* two positions of the list carry the same timestamp
SharesTimestamp(samples) ==
    \E i, j \in DOMAIN samples :
        i # j /\ samples[i].timestamp = samples[j].timestamp

\* C11: DynamicTransform::new returns NoTransforms for an empty list,
\* DuplicateTimestamp when two samples (adjacent or not) share a timestamp,
\* and otherwise an edge whose samples are the input samples in strictly
\* ascending order of timestamp.
C11_NewSortsAndRejects ==
    call.op = "new" =>
        IF call.samples = << >> THEN result = Err("NoTransforms")
        ELSE IF SharesTimestamp(call.samples)
        THEN result.kind = "err" /\ result.err = "DuplicateTimestamp"
        ELSE /\ IsOk(result)
             /\ StrictlyAscending(result.val.samples)
             /\ Len(result.val.samples) = Len(call.samples)
             /\ \A i \in DOMAIN call.samples :
                    Occurrences(result.val.samples, call.samples[i])
                        = Occurrences(call.samples, call.samples[i])

\* C11 witness: three samples given in descending order are accepted
C11_Witness ==
    /\ call.op = "new" /\ Len(call.samples) = 3
    /\ call.samples[1].timestamp > call.samples[2].timestamp
    /\ call.samples[2].timestamp > call.samples[3].timestamp
    /\ IsOk(result)

\* the samples of the list inside the window start <= t < end
InWindow(samples, start_time, end_time) ==
    {samples[i] : i \in {j \in DOMAIN samples :
        /\ start_time = None \/ start_time.val <= samples[j].timestamp
        /\ end_time = None \/ samples[j].timestamp < end_time.val}}
\* position of the sample x in the list
PositionIn(samples, x) == CHOOSE i \in DOMAIN samples : samples[i] = x

\* C12: filter_samples_by_time keeps exactly the samples of the window
\* start <= t < end in their original order; when none qualifies it returns
\* NoTransforms and leaves the samples as they were; a constructed edge
\* always has a non-empty, strictly ascending sample sequence.
C12_FilterKeepsWindow ==
    /\ IsOk(edge) => Samples # << >> /\ StrictlyAscending(Samples)
    /\ call.op = "filter_samples_by_time" =>
          LET before == call.self.samples
              kept == InWindow(before, call.start_time, call.end_time)
          IN  IF kept = {}
              THEN result = Err("NoTransforms") /\ Samples = before
              ELSE /\ IsOk(result)
                   /\ Range(Samples) = kept
                   /\ Len(Samples) = Cardinality(kept)
                   /\ \A i, j \in DOMAIN Samples :
                          i < j => PositionIn(before, Samples[i])
                                       < PositionIn(before, Samples[j])

\* C12 witness: a window that drops the first and the last of three samples
C12_Witness ==
    /\ call.op = "filter_samples_by_time" /\ IsOk(result)
    /\ Len(call.self.samples) = 3 /\ Len(Samples) = 1
    /\ Samples[1] = call.self.samples[2]

\* ================================ properties, TransformTree (Spec)
\* the TransformIds along a frame path
IdsAlong(path) == {<<path[i], path[i + 1]>> : i \in 1..(Len(path) - 1)}
\* some edge of the path is Dynamic / every edge of the path is Static
SomeDynamic(path) ==
    \E k \in IdsAlong(path) : k \in DOMAIN edges /\ edges[k].type = "dynamic"
AllStatic(path) ==
    \A k \in IdsAlong(path) : k \in DOMAIN edges /\ edges[k].type = "static"

\* C13: for a TransformId that resolves to a unique path, get_static_transform
\* fails with ContainsDynamicTransform exactly when some edge of the path is
\* Dynamic, which is exactly when is_transform_path_static returns false;
\* when every edge is Static it returns the composition of the carried
\* transforms in path order.
C13_StaticPathQueries ==
    call.op \in {"get_static_transform", "is_transform_path_static"} =>
        LET paths == DirectedSimplePaths(frame_graph, call.id[1], call.id[2])
        IN  Cardinality(paths) = 1 =>
                LET path == CHOOSE p \in paths : TRUE
                    static == get_static_transform(CurTree, call.id)
                    flag == is_transform_path_static(CurTree, call.id)
                IN  /\ static = Err("ContainsDynamicTransform")
                           <=> SomeDynamic(path)
                    /\ flag = Ok(FALSE) <=> SomeDynamic(path)
                    /\ AllStatic(path) =>
                           /\ flag = Ok(TRUE)
                           /\ IsOk(static)
                           /\ TransformEq(static.val, ComposeFrom(path, 1, 0))
                    /\ call.op = "get_static_transform" => result = static
                    /\ call.op = "is_transform_path_static" => result = flag

\* the (edge, sample position) pairs of the Dynamic edges of the path
SamplesAlong(path) ==
    {<<k, i>> \in IdsAlong(path) \X (1..(MaxLen + 2)) :
        /\ k \in DOMAIN edges /\ edges[k].type = "dynamic"
        /\ i \in DOMAIN edges[k].samples}

\* C14: compute_timed_transforms_for_all_samples returns one TimedTransform
\* for each sample timestamp of every Dynamic edge of the resolved path, in
\* ascending order of timestamp across the edges, each carrying
\* get_transform_at_time at its timestamp.
C14_TimedTransformsAscending ==
    call.op = "compute_timed_transforms_for_all_samples" =>
        LET paths == DirectedSimplePaths(frame_graph, call.id[1], call.id[2])
        IN  Cardinality(paths) = 1 =>
                LET all == SamplesAlong(CHOOSE p \in paths : TRUE)
                IN  /\ IsOk(result)
                    /\ \A t \in QueryTimes :
                           Cardinality({j \in DOMAIN result.val :
                                           result.val[j].timestamp = t})
                               = Cardinality({s \in all :
                                     edges[s[1]].samples[s[2]].timestamp = t})
                    /\ Len(result.val) = Cardinality(all)
                    /\ \A j \in 1..(Len(result.val) - 1) :
                           result.val[j].timestamp
                               <= result.val[j + 1].timestamp
                    /\ \A j \in DOMAIN result.val :
                           LET at == get_transform_at_time(
                                         CurTree, call.id,
                                         result.val[j].timestamp)
                           IN  /\ IsOk(at)
                               /\ TransformEq(result.val[j].transform, at.val)

\* number of arcs into / out of a node of the frame graph
InDegree(n) == Cardinality({a \in frame_graph.arcs : a[2] = n})
OutDegree(n) == Cardinality({a \in frame_graph.arcs : a[1] = n})

\* C15: root_frames is the set of frames without an incoming edge and
\* child_frames the set of frames without an outgoing edge; a single edge
\* A -> B has the root A and the leaf B, and a frame where two roots
\* converge is no root and, having a child, no leaf.
C15_RootsAndLeaves ==
    /\ call.op = "root_frames" =>
          /\ IsOk(result)
          /\ result.val = {n \in frame_graph.nodes : InDegree(n) = 0}
          /\ frame_graph.arcs = {<<"A", "B">>} => result.val = {"A"}
          /\ \A n \in frame_graph.nodes : InDegree(n) >= 2 => n \notin result.val
    /\ call.op = "child_frames" =>
          /\ IsOk(result)
          /\ result.val = {n \in frame_graph.nodes : OutDegree(n) = 0}
          /\ frame_graph.arcs = {<<"A", "B">>} => result.val = {"B"}
          /\ \A n \in frame_graph.nodes :
                 (InDegree(n) >= 2 /\ OutDegree(n) >= 1) => n \notin result.val

\* C15 witness: the roots A and B converge in C, which has the child D
C15_Witness ==
    /\ call.op = "root_frames"
    /\ frame_graph.arcs = {<<"A", "C">>, <<"B", "C">>, <<"C", "D">>}
    /\ result = Ok({"A", "B"})

\* ------------------------------- properties, ReferenceFrames (SpecChannels)
Derived == call.op = "derive_transform_graph"
\* the keys the call selects
SelectedKeys ==
    IF call.selected_channel_ids = None
    THEN DOMAIN reference_frames.transforms
    ELSE {k \in DOMAIN reference_frames.transforms :
             k[1] \in call.selected_channel_ids.val}
\* the priority of a channel, a missing priority counting as 0
PriorityOf(c) ==
    IF c \in DOMAIN reference_frames.channel_info
    THEN IF reference_frames.channel_info[c].priority = None THEN 0
         ELSE reference_frames.channel_info[c].priority.val
    ELSE 0
\* the pairs of selected keys of one TransformId with priorities p1 < p2
Outranked ==
    {p \in SelectedKeys \X SelectedKeys :
        p[1][2] = p[2][2] /\ PriorityOf(p[1][1]) < PriorityOf(p[2][1])}
\* the ReferenceFrames without the samples stored under key k
WithoutKey(k) ==
    [reference_frames EXCEPT !.transforms =
        [x \in (DOMAIN reference_frames.transforms) \ {k} |->
            reference_frames.transforms[x]]]
\* what the samples stored under key k evaluate to at the call's timestamp
EvaluatedAt(k) ==
    inter_and_extrapolate_transforms(reference_frames.transforms[k],
        call.selected_timestamp,
        get_interpolation_method(reference_frames, k[2]),
        get_extrapolation_method(reference_frames, k[2]))

\* C16: when two selected channels supply the same TransformId with
\* priorities p1 < p2 (a missing priority counting as 0), the graph that
\* derive_transform_graph returns is the one it returns without the samples
\* of the p1 channel, and where p2 is the one highest priority the
\* TransformId carries what the p2 channel's samples evaluate to
C16_HigherPriorityWins ==
    Derived =>
        \A p \in Outranked :
            /\ result = derive_transform_graph(WithoutKey(p[1]),
                            call.selected_channel_ids, call.selected_timestamp,
                            Restrict(call.order, SelectedKeys \ {p[1]}),
                            call.id_order)
            /\ ( /\ IsOk(result)
                 /\ \A k \in SelectedKeys \ {p[2]} :
                        k[2] = p[2][2] => PriorityOf(k[1]) < PriorityOf(p[2][1]) )
               => result.val.isometries[p[2][2]] = EvaluatedAt(p[2]).val

\* C16 witness: a graph was derived where a channel without a priority is
\* outranked and its samples would have given another isometry
C16_Witness ==
    /\ Derived /\ IsOk(result)
    /\ \E p \in Outranked :
           /\ p[1][1] \notin DOMAIN reference_frames.channel_info
           /\ IsOk(EvaluatedAt(p[1]))
           /\ EvaluatedAt(p[1]).val # result.val.isometries[p[2][2]]

\* str::cmp on the channel ids of the model
ChannelRank(c) == IF c = "a" THEN 1 ELSE IF c = "b" THEN 2 ELSE 3
\* the selected channels that share the highest priority of TransformId id
Tied(id) ==
    {k[1] : k \in {x \in SelectedKeys :
        /\ x[2] = id
        /\ \A y \in SelectedKeys :
               y[2] = id => PriorityOf(y[1]) <= PriorityOf(x[1])}}
LexFirst(S) == CHOOSE c \in S : \A d \in S : ChannelRank(c) <= ChannelRank(d)
LexLast(S) == CHOOSE c \in S : \A d \in S : ChannelRank(d) <= ChannelRank(c)
\* what derive_transform_graph returns for the same call under each
\* iteration order of the transforms map
DerivedUnderAnyOrder ==
    {derive_transform_graph(reference_frames, call.selected_channel_ids,
         call.selected_timestamp, o, call.id_order)
     : o \in Orders(DOMAIN reference_frames.transforms)}

\* C17: when several selected channels share the highest priority of a
\* TransformId, the channel whose samples are used is fixed by the
\* lexicographic order of the channel ids (the first of them under every
\* iteration order of the map, or the last of them under every order)
C17_TieBrokenByChannelId ==
    (Derived /\ IsOk(result)) =>
        \A id \in DOMAIN result.val.isometries :
            Cardinality(Tied(id)) > 1 =>
                \/ \A r \in DerivedUnderAnyOrder :
                       IsOk(r) => Ok(r.val.isometries[id])
                                     = EvaluatedAt(<<LexFirst(Tied(id)), id>>)
                \/ \A r \in DerivedUnderAnyOrder :
                       IsOk(r) => Ok(r.val.isometries[id])
                                     = EvaluatedAt(<<LexLast(Tied(id)), id>>)

Merged == call.op = "merge"
\* the inputs of the merge call that hold key k
HoldersOf(k) ==
    {i \in DOMAIN call.reference_frames :
        k \in DOMAIN call.reference_frames[i].transforms}
\* the keys held by more than one input
CollidingKeys ==
    {k \in MergedKeys(call.reference_frames) : Cardinality(HoldersOf(k)) > 1}

\* C18: merge fails exactly when some (ChannelId, TransformId) key is held
\* by more than one input, the failure being ChannelTransformCollisions
\* with a colliding key; when the key sets are pairwise disjoint it returns
\* Ok, and the transforms of the result are the union of the inputs'
\* transforms, each key with the samples of the one input that holds it
C18_MergeCollisions ==
    Merged =>
        IF CollidingKeys # {}
        THEN /\ result.kind = "err"
             /\ result.err = "ChannelTransformCollisions"
             /\ result.arg \in CollidingKeys
        ELSE /\ IsOk(result)
             /\ DOMAIN result.val.transforms = MergedKeys(call.reference_frames)
             /\ \A k \in MergedKeys(call.reference_frames) :
                    \A i \in HoldersOf(k) :
                        result.val.transforms[k]
                            = call.reference_frames[i].transforms[k]

\* ------------------------------------- properties, Octree (SpecOctree)
Built == octree.kind = "ok"
Cells == octree.val.cells

\* C19: in an octree built by Octree::new with the cap
\* max_items_per_octant, every entry of cells() holds at least one and at
\* most max_items_per_octant items
C19_CellsWithinCap ==
    Built =>
        \A index \in DOMAIN Cells :
            /\ Len(Cells[index]) >= 1
            /\ Len(Cells[index]) <= call.max_items_per_octant

\* C19 witness: three items were built with cap 2, one cell is filled to
\* the cap and the item left over is alone in a cell one level down
C19_Witness ==
    /\ Built
    /\ call.max_items_per_octant = 2
    /\ Len(call.items) = 3
    /\ Len(Cells[Origin]) = 2
    /\ \E index \in DOMAIN Cells : index.level = 1 /\ Len(Cells[index]) = 1

\* the bounding cube of an octant of the built octree
CubeOf(index) == get_octant_bounding_cube(octree.val.bounds, index)

\* C20: in an octree built by Octree::new, the center of every item that
\* a cell of cells() stores lies in the bounding cube of that octant, the
\* lower bound included and the upper bound excluded, on all three axes
C20_ItemsInsideTheirCube ==
    Built =>
        \A index \in DOMAIN Cells :
            \A j \in 1..Len(Cells[index]) :
                \A axis \in {"x", "y", "z"} :
                    /\ RLeq(CubeOf(index).lower_bound[axis],
                            Cells[index][j].center[axis])
                    /\ RLess(Cells[index][j].center[axis],
                             CubeOf(index).upper_bound[axis])

\* C20 witness: a cell below the origin stores an item whose center is on
\* the lower bound of the cell's cube on all three axes
C20_Witness ==
    /\ Built
    /\ \E index \in DOMAIN Cells :
           /\ index.level >= 1
           /\ \E j \in 1..Len(Cells[index]) :
                  \A axis \in {"x", "y", "z"} :
                      Cells[index][j].center[axis]
                          = CubeOf(index).lower_bound[axis]

\* the octants from index up to the origin: index and its ancestors
AncestorsOrSelf(index) ==
    {OctantIndex(l, index.x \div 2^(index.level - l),
                    index.y \div 2^(index.level - l),
                    index.z \div 2^(index.level - l)) : l \in 0..index.level}

\* C21: in an octree built by Octree::new, every octant that holds items
\* in cells() and each of its ancestors up to and including the level-0
\* octant is occupied in the occupancy graph, also when all items fit into
\* the level-0 cell
C21_OccupiedChainRecorded ==
    Built =>
        \A index \in DOMAIN Cells :
            \A a \in AncestorsOrSelf(index) :
                is_cell_occupied(octree.val.occupancy_graph, a)

\* the number of items still pending in a build
RECURSIVE SumOfLengths(_)
SumOfLengths(m) ==
    IF DOMAIN m = {} THEN 0
    ELSE LET k == CHOOSE x \in DOMAIN m : TRUE
         IN  Len(m[k]) + SumOfLengths([j \in (DOMAIN m) \ {k} |-> m[j]])
PendingCount(b) == SumOfLengths(b.pending_items)

\* C22: Octree::new terminates for every non-empty item list and every
\* max_items_per_octant: each pass of the loop leaves fewer pending items
\* than it found, and the build reaches its end with none pending
C22_BuildTerminates ==
    /\ [][(octree.kind = "building" /\ octree'.kind = "building")
              => PendingCount(octree') < PendingCount(octree)]_vars
    /\ (octree.kind = "building") ~> (octree.kind = "ok")

\* ===================================== properties, CSV readers (SpecIo)
\* the rows of the file read by ecoord::read_from_csv_file, by TransformId
CsvGroups == GroupedByTransformId(call.records)
CsvRead == call.op = "ecoord::read_from_csv_file" /\ IsOk(result)
\* the timestamps the rows of a group carry, in ascending order
RowTimestamps(records) ==
    {csv_timestamp(records[i]).val.val : i \in DOMAIN records}
\* a row carries a timestamp when one of its timestamp columns is filled
CarriesTimestamp(record) ==
    \/ record.timestamp # None
    \/ record.timestamp_sec # None
    \/ record.timestamp_nanosec # None

\* C23: in the tree read from a CSV file, a group of exactly one row without
\* a timestamp is a Static edge, and every other group (a single row with a
\* timestamp, or two or more rows) is a Dynamic edge with interpolation and
\* extrapolation unset whose samples carry the timestamps of the rows
C23_GroupsBecomeEdges ==
    CsvRead =>
        \A id \in DOMAIN CsvGroups :
            LET records == CsvGroups[id]
                e == result.val.edges[id]
            IN  IF Len(records) = 1 /\ ~CarriesTimestamp(First(records))
                THEN e.type = "static"
                ELSE /\ e.type = "dynamic"
                     /\ e.interpolation = "none"
                     /\ e.extrapolation = "none"
                     /\ {e.samples[i].timestamp : i \in DOMAIN e.samples}
                            = RowTimestamps(records)

\* the samples kitti::read_from_csv_file returned for the trajectory
KittiRead == call.op = "kitti::read_from_csv_file" /\ IsOk(result)
TrajectorySamples ==
    result.val.transforms[<<TRAJECTORY_CHANNEL_ID,
                            <<TRAJECTORY_FRAME_ID, TRAJECTORY_CHILD_FRAME_ID>> >>]

\* C24: the N >= 1 poses read over the window (start, stop) carry the
\* timestamps start + (stop - start) * i / N for i = 0 .. N-1, computed on
\* integer nanoseconds; the first is start and all are before stop
C24_TimestampsLinearInWindow ==
    (KittiRead /\ Len(call.records) >= 1) =>
        LET n == Len(call.records)
            start == call.start_date_time
            stop == call.stop_date_time
        IN  /\ Len(TrajectorySamples) = n
            /\ TrajectorySamples[1].timestamp = start
            /\ \A i \in 0..(n - 1) :
                   /\ TrajectorySamples[i + 1].timestamp
                          = start + ((stop - start) * i) \div n
                   /\ TrajectorySamples[i + 1].timestamp < stop

\* ===================== properties, TransformTree after removals (Spec)
\* edges were only removed since the frame graph was built
OnlyRemoved == DOMAIN edges \subseteq frame_graph.arcs

\* C25: after remove_transform, root_frames, child_frames and the path
\* queries answer as on the tree rebuilt from the remaining edges, with a
\* typed error at most and never an abort; after any sequence of insert_edge
\* and remove_transform the arcs of the frame graph are the keys of edges
C25_RemoveMatchesRebuild ==
    /\ (call.op \in PathQueries /\ OnlyRemoved) => result = AnswerOn(Rebuilt)
    /\ call.op \in PathQueries => result.kind # "panic"
    /\ frame_graph.arcs = DOMAIN edges

\* ------------------------- properties, occupancy of a built Octree
\* C26: the occupancy graph of an octree built by Octree::new contains only
\* octants that hold items in cells() or have a descendant that does, so
\* is_cell_occupied is false for an empty sibling of an occupied octant
C26_OnlyOccupiedRecorded ==
    Built =>
        \A level \in 0..MaxRounds, x, y, z \in 0..(2^MaxRounds - 1) :
            is_cell_occupied(octree.val.occupancy_graph,
                             OctantIndex(level, x, y, z))
                => \E index \in DOMAIN Cells :
                       OctantIndex(level, x, y, z) \in AncestorsOrSelf(index)

\* ------------ properties, the order of a round's pairs (SpecOctreeRound)
\* the build carried through its rounds with each round taken as a whole
RECURSIVE RunRounds(_)
RunRounds(b) ==
    IF DOMAIN b.pending_items = {} \/ b.rounds >= MaxRounds THEN b
    ELSE RunRounds(Round(b))
\* what Octree::new returns for the call in flight with whole rounds
BuiltByWholeRounds ==
    FinishOctree(RunRounds(StartOctree(call.items, call.max_items_per_octant,
                                       call.shuffle)))

\* C27: whatever the order in which the (parent, child) pairs of each round
\* were mapped and their results applied, the octree Octree::new returns for
\* a given item list and shuffle has the same cells and the same occupied
\* octants
C27_PairOrderIrrelevant ==
    Built =>
        /\ Cells = BuiltByWholeRounds.val.cells
        /\ octree.val.occupancy_graph.nodes
               = BuiltByWholeRounds.val.occupancy_graph.nodes

\* C27 witness: a build whose last round had the children of two pending
\* octants to work on, and left items in children of both
C27_Witness ==
    /\ Built
    /\ \E i, j \in DOMAIN Cells :
           /\ i.level = 2 /\ j.level = 2
           /\ get_parent(i) # get_parent(j)

\* ------------------- properties, stored sample vectors (SpecSamples)
\* C28: after ReferenceFrames::new and any add_transforms and
\* extend_transforms calls that returned Ok, every sample vector stored under
\* a (ChannelId, TransformId) key is non-empty and strictly ascending in
\* timestamp
C28_StoredSamplesSorted ==
    \A k \in DOMAIN reference_frames.transforms :
        /\ reference_frames.transforms[k] # << >>
        /\ StrictlyAscending(reference_frames.transforms[k])

\* ---------------------------------- properties, Morton codes (SpecMorton)
\* 2^21 - 1 as a set of bits, and a coordinate above it
FitsIn21Bits(n) == n \subseteq 0..20
\* bit i of x, y and z at the positions 3i, 3i + 1 and 3i + 2
Interleaved(o) ==
    {3 * i : i \in o.x} \cup {3 * i + 1 : i \in o.y} \cup {3 * i + 2 : i \in o.z}

\* C29: morton_index returns IndexTooLarge when x, y or z exceeds 2^21 - 1,
\* and otherwise the code with bit i of x, y and z at the positions 3i,
\* 3i + 1 and 3i + 2; two octants of one level with different coordinates
\* that sort_by_morton_indices returns never carry the same Morton code
C29_MortonCodeInjective ==
    /\ (call.op = "morton_index" /\ result # None) =>
           IF \E n \in {call.self.x, call.self.y, call.self.z} : ~FitsIn21Bits(n)
           THEN result = Err("IndexTooLarge")
           ELSE result = Ok(Interleaved(call.self))
    /\ (/\ call.op = "sort_by_morton_indices" /\ IsOk(result)
        /\ result.val[1][1].level = result.val[2][1].level
        /\ result.val[1][1] # result.val[2][1])
           => result.val[1][2] # result.val[2][2]

\* ------------------------ properties, conservation of items (SpecOctree)
\* the items of the call are points, and the cap is at least one
PointItemsCapped ==
    /\ call.max_items_per_octant >= 1
    /\ \A i \in DOMAIN call.items :
           call.items[i].min = call.items[i].center
               /\ call.items[i].max = call.items[i].center
\* how often the item x is stored in the cells
StoredCount(x) ==
    Cardinality({<<index, j>> \in (DOMAIN Cells) \X (1..Len(call.items)) :
                    j <= Len(Cells[index]) /\ Cells[index][j] = x})

====
